---- MODULE Spec2Model ----
\* Verification model of the AgentNativeFramework resilience layer
\* (core/resilience/error_recovery.py): CircuitBreaker, RetryHandler,
\* ErrorRecoveryManager and the three decorators.
EXTENDS Integers, Sequences, FiniteSets, TLC

\* ---------------------------------------------------------------- parameters
\* CircuitBreakerConfig and RetryConfig are constructor parameters; the model
\* instantiates every circuit with the same small values. Time is counted in
\* whole clock units.
FailureThreshold == 2
SuccessThreshold == 2
RecoveryTimeout == 1
MaxAttempts == 3
\* Bounds of the model.
MaxTime == 5
MaxElapse == 2
MaxCalls == 3
MaxVal == 2

Calls == 1..MaxCalls
Values == 1..MaxVal

\* Circuit names: one that _initialize_circuit_breakers configures and one that
\* get_circuit_breaker creates on first use.
PreConfigured == {"agent_activation"}
Names == {"agent_activation", "custom_op"}
\* The circuit_name given to the decorators of the decorated function.
DecoName == "agent_activation"

\* What one run of the wrapped operation does: return a value, raise a
\* recoverable AgentError, raise an AgentError with recoverable=False
\* (ResourceExhaustionError), or raise another Exception (or time out).
Outcomes ==
    [kind : {"ok"}, val : Values]
        \cup [kind : {"agent_error", "non_recoverable", "exception"}, val : {0}]

VARIABLES
    now,          \* time.time(), in clock units
    breaker,      \* the CircuitBreaker that concurrent callers share
    pc,           \* per caller: "idle" or "running" (inside the awaited func)
    event,        \* ghost: what the last step did
    streak,       \* ghost: failed calls completed since the last successful one
    lastFail,     \* ghost: time of the last failed call (-1: none yet)
    okRun,        \* ghost: successful calls completed in a row since the last
                  \* failed one or since the breaker last became half_open
    circuit_breakers, \* ErrorRecoveryManager.circuit_breakers of the manager the
                  \* application keeps: circuit name -> CircuitBreaker
    local_breakers,   \* circuit_breakers of the manager a decorator's wrapper
                  \* built for the invocation in progress
    wrapper,      \* which entry point the invocation in progress came through
    cname,        \* the circuit name of the invocation in progress
    rpc,          \* position of the invocation: idle, attempt, sleep, returned, raised
    attempt,      \* RetryHandler.retry: the loop index
    last_exception,   \* RetryHandler.retry: last_exception (kind, and which call raised it)
    result,       \* the value the invocation returned (0: none)
    log,          \* ghost: the calls of func and the sleeps of this invocation, in order
    fc0,          \* ghost: failure_count of the circuit when the invocation started
    decoStreak,   \* ghost: decorated invocations in a row that ran the function and failed
    decoLastFail  \* ghost: time the last of them failed (-1: none yet)

VARIABLES
    decision,     \* the HiveDecision whose votes a resolution rule is applied to
    outcome,      \* what _resolve_hive_decision got back from the rule
    nodes,        \* HiveIntelligence.nodes: node_id -> HiveNode
    active_decisions, \* HiveIntelligence.active_decisions: decision_id -> object
    decisions,    \* the HiveDecision objects created so far, in creation order
    decision_history, \* HiveIntelligence.decision_history (object references)
    hproc,        \* the _process_hive_decision tasks created so far
    swarms,       \* the SwarmState objects created so far, in creation order
    active_swarms,    \* SwarmManager.active_swarms: swarm_id -> object
    bridge_swarms,    \* DaemonBridge.active_swarms: swarm_id -> object
    formed,       \* ghost: the topology each swarm object was created with
    coord,        \* the coordinate_swarm_task calls made so far
    sevent        \* ghost: the create_swarm call the last step made, if any:
                  \* the id, the swarm returned, and whether the call named
                  \* another topology than the one of the swarm with that id

VARIABLES
    memory_store, \* HiveIntelligence.memory_store: the fragments, in the
                  \* insertion order of the dict
    mevent        \* ghost: the memory call the last step made, if any, with
                  \* its arguments and what it returned

VARIABLES
    agent_registry,   \* AgentManager.agent_registry: its keys in insertion order
    active_agents,    \* AgentManager.active_agents: its keys
    aevent        \* ghost: the agent manager call the last step made, if
                  \* any, its arguments, what it returned, and the active
                  \* agents before it

VARIABLES
    performance_metrics,  \* SwarmHiveCoordinator.performance_metrics
    active_coordinations, \* SwarmHiveCoordinator.active_coordinations:
                          \* task_id -> the call that entered it last
    coordination_history, \* SwarmHiveCoordinator.coordination_history (calls)
    ctasks,       \* the coordinate_task calls made so far
    cevent        \* ghost: the coordinate_task call the last step began, if
                  \* any: its task and the mode it runs in

\* SwarmManager's archive and the swarm-only coordinations of the coordinator
VARIABLES
    swarm_history, \* SwarmManager.swarm_history: the dissolved swarms
    global_memory, \* SwarmManager.global_memory: swarm id -> learnings
    runs          \* the _coordinate_swarm_only calls made so far: the swarm
                  \* each one got from create_swarm, whether create_swarm
                  \* made it, the coordinate_swarm_task call it awaits, and
                  \* what its dissolve_swarm returned

\* DaemonBridge and one client connection (core/daemon_bridge.py)
VARIABLES
    running,      \* DaemonBridge.running
    conn,         \* the connection: "open", or who closed it
    received,     \* the lines handle_client has read from the connection
    sent,         \* the lines handle_client has written to it
    pending       \* the command whose handler is suspended, if any

cbVars == <<breaker, pc, event, streak, lastFail, okRun>>
resVars == <<circuit_breakers, local_breakers, wrapper, cname, rpc, attempt,
             last_exception, result, log, fc0, decoStreak, decoLastFail>>
resolveVars == <<decision, outcome>>
nodeVars == <<nodes>>
hiveVars == <<active_decisions, decisions, decision_history, hproc>>
swarmVars == <<swarms, active_swarms, bridge_swarms, formed, coord, sevent>>
memVars == <<memory_store, mevent>>
agentVars == <<agent_registry, active_agents, aevent>>
coordinatorVars == <<performance_metrics, active_coordinations,
                     coordination_history, ctasks, cevent>>
lifeVars == <<swarm_history, global_memory, runs>>
bridgeVars == <<running, conn, received, sent, pending>>
serviceVars == <<memVars, agentVars, coordinatorVars, lifeVars, bridgeVars>>
swarmHiveVars == <<resolveVars, nodeVars, hiveVars, swarmVars>>
coordVars == <<swarmHiveVars, serviceVars>>
notMemVars == <<cbVars, resVars, swarmHiveVars, agentVars, coordinatorVars,
               lifeVars, bridgeVars>>
notAgentVars == <<cbVars, resVars, swarmHiveVars, memVars, coordinatorVars,
                 lifeVars, bridgeVars>>
notCoordinatorVars == <<cbVars, resVars, swarmHiveVars, memVars, agentVars,
                       lifeVars, bridgeVars>>
vars == <<now, breaker, pc, event, streak, lastFail, okRun,
          circuit_breakers, local_breakers, wrapper, cname, rpc, attempt,
          last_exception, result, log, fc0, decoStreak, decoLastFail,
          decision, outcome, nodes, active_decisions, decisions,
          decision_history, hproc,
          swarms, active_swarms, bridge_swarms, formed, coord, sevent,
          memory_store, mevent, agent_registry, active_agents, aevent,
          performance_metrics, active_coordinations, coordination_history,
          ctasks, cevent, swarm_history, global_memory, runs,
          running, conn, received, sent, pending>>

\* ------------------------------------------------------------ CircuitBreaker
\* CircuitBreaker.__init__
NewCircuitBreaker ==
    [state |-> "closed", failure_count |-> 0, success_count |-> 0,
     last_failure_time |-> 0]

transition_to_closed(b) ==
    [b EXCEPT !.state = "closed", !.failure_count = 0, !.success_count = 0]

transition_to_open(b) == [b EXCEPT !.state = "open"]

transition_to_half_open(b) ==
    [b EXCEPT !.state = "half_open", !.success_count = 0]

\* Mutant: a success in the closed state leaves failure_count as it is.
on_success_keeps_count(b) ==
    IF b.state = "half_open"
    THEN LET b1 == [b EXCEPT !.success_count = @ + 1]
         IN  IF b1.success_count >= SuccessThreshold
             THEN transition_to_closed(b1) ELSE b1
    ELSE b

on_success(b) ==
    IF b.state = "half_open"
    THEN LET b1 == [b EXCEPT !.success_count = @ + 1]
         IN  IF b1.success_count >= SuccessThreshold
             THEN transition_to_closed(b1) ELSE b1
    ELSE [b EXCEPT !.failure_count = 0]

\* Mutant: the circuit opens one failure late (> for >=).
on_failure_late(b, t) ==
    LET b1 == [b EXCEPT !.failure_count = @ + 1, !.last_failure_time = t]
    IN  IF b1.failure_count > FailureThreshold
        THEN transition_to_open(b1) ELSE b1

on_failure(b, t) ==
    LET b1 == [b EXCEPT !.failure_count = @ + 1, !.last_failure_time = t]
    IN  IF b1.failure_count >= FailureThreshold
        THEN transition_to_open(b1) ELSE b1

\* Mutant: a rejected call is recorded as a failure time.
call_gate_postpones(b, t) ==
    IF b.state = "open"
    THEN IF t - b.last_failure_time > RecoveryTimeout
         THEN [admitted |-> TRUE, cb |-> transition_to_half_open(b)]
         ELSE [admitted |-> FALSE, cb |-> [b EXCEPT !.last_failure_time = t]]
    ELSE [admitted |-> TRUE, cb |-> b]

\* The gate at the head of CircuitBreaker.call: the breaker after the gate and
\* whether the call goes on to invoke func (FALSE: AgentError "is OPEN").
call_gate(b, t) ==
    IF b.state = "open"
    THEN IF t - b.last_failure_time > RecoveryTimeout
         THEN [admitted |-> TRUE, cb |-> transition_to_half_open(b)]
         ELSE [admitted |-> FALSE, cb |-> b]
    ELSE [admitted |-> TRUE, cb |-> b]

\* One whole CircuitBreaker.call made at time t by a caller that runs alone,
\* func behaving as `out`: the breaker afterwards, whether func was invoked, and
\* what the caller sees. Every exception leaves call as a fresh AgentError,
\* whose recoverable flag is the default (True).
circuit_call(b, t, out) ==
    LET g == call_gate(b, t)
    IN  IF ~g.admitted
        THEN [cb |-> g.cb, invoked |-> FALSE, seen |-> "agent_error", val |-> 0]
        ELSE IF out.kind = "ok"
        THEN [cb |-> on_success(g.cb), invoked |-> TRUE, seen |-> "ok",
              val |-> out.val]
        ELSE [cb |-> on_failure(g.cb, t), invoked |-> TRUE,
              seen |-> "agent_error", val |-> 0]

\* -------------------------------------------------------------- RetryHandler
\* Mutant: the exhaustion test is off by one (> for >=).
retry_step_extra_attempt(att, seen) ==
    IF seen = "ok" THEN "returned"
    ELSE IF att + 1 > MaxAttempts THEN "raised"
    ELSE IF seen = "non_recoverable" THEN "raised"
    ELSE "sleep"

\* Mutant: the recoverable flag is not looked at.
retry_step_ignores_recoverable(att, seen) ==
    IF seen = "ok" THEN "returned"
    ELSE IF att + 1 >= MaxAttempts THEN "raised"
    ELSE "sleep"

\* Where RetryHandler.retry goes after func ended as `seen` in loop index att.
retry_step(att, seen) ==
    IF seen = "ok" THEN "returned"
    ELSE IF att + 1 >= MaxAttempts THEN "raised"
    ELSE IF seen = "non_recoverable" THEN "raised"
    ELSE "sleep"

\* The position on entering the for loop.
retry_enter == IF MaxAttempts > 0 THEN "attempt" ELSE "raised"

NoException == [kind |-> "none", at |-> 0]
SleepEntry == [e |-> "sleep", op |-> "-", seen |-> "-", val |-> 0]
CallEntry(op, seen, val) == [e |-> "call", op |-> op, seen |-> seen, val |-> val]

\* ------------------------------------------------------ ErrorRecoveryManager
\* ErrorRecoveryManager.__init__ / _initialize_circuit_breakers
InitialBreakers == [n \in PreConfigured |-> NewCircuitBreaker]

\* get_circuit_breaker: the manager's table after get-or-create of name n.
get_circuit_breaker(d, n) ==
    IF n \in DOMAIN d THEN d
    ELSE [m \in DOMAIN d \cup {n} |-> IF m = n THEN NewCircuitBreaker ELSE d[m]]

Resting == {"idle", "returned", "raised"}
Decorators == {"with_resilience", "with_circuit_breaker"}

\* ------------------------------------------------ hive: resolution rules
\* (core/coordination/hive_intelligence.py). Confidences are counted in tenths,
\* vote timestamps in whole seconds; a quotient the code computes in floating
\* point is kept as the pair num/den.
\* collective_threshold = 0.75 as the fraction 3/4.
CollectiveThresholdNum == 3
CollectiveThresholdDen == 4
\* The participation rate _resolve_quorum requires, 0.6, as the fraction 3/5.
QuorumNum == 3
QuorumDen == 5
\* HiveNode.influence_score: the dataclass default, which no code assigns.
InfluenceScore == 1
\* Bounds of the model.
MaxVotes == 4
MaxStamp == 1
MaxParticipants == 2

HiveDecisionMethod == {"consensus", "weighted", "quorum", "emergent"}
\* The option ids of the decisions the model initiates.
HiveOptions == {"opt_a", "opt_b"}
NoOption == "none"
\* vote["confidence"] = min(1.0, expertise_score + 0.2): 0.7 for an option
\* without required_expertise, 1.0 for one the node is expert in.
HiveConfidences == {7, 10}

RECURSIVE SumOver(_, _)
SumOver(f, S) ==
    IF S = {} THEN 0
    ELSE LET x == CHOOSE y \in S : TRUE IN f[x] + SumOver(f, S \ {x})

MinOf(S) == CHOOSE x \in S : \A y \in S : x <= y

\* One entry of decision.votes, which the model keeps as the sequence of the
\* dict's items in insertion order.
Vote(n, o, c, t) ==
    [node |-> n, chosen_option |-> o, confidence |-> c, vote_timestamp |-> t]

\* The dict a resolution rule returns.
Resolution(cr, o, num, den, why) ==
    [kind |-> "result", consensus_reached |-> cr, chosen_option |-> o,
     num |-> num, den |-> den, reason |-> why]
\* The rule raised instead of returning.
Raised(why) ==
    [kind |-> "raised", consensus_reached |-> FALSE, chosen_option |-> NoOption,
     num |-> 0, den |-> 1, reason |-> why]
NoOutcome ==
    [kind |-> "none", consensus_reached |-> FALSE, chosen_option |-> NoOption,
     num |-> 0, den |-> 1, reason |-> ""]

\* The keys of a dict that is filled by walking the votes: the options in the
\* order of their first vote.
RECURSIVE option_order(_)
option_order(votes) ==
    IF votes = <<>> THEN <<>>
    ELSE LET front == option_order(SubSeq(votes, 1, Len(votes) - 1))
             o == votes[Len(votes)].chosen_option
         IN IF \E i \in 1..Len(front) : front[i] = o THEN front
            ELSE Append(front, o)

VotesFor(votes, o) == {i \in 1..Len(votes) : votes[i].chosen_option = o}
ConfidenceOf(votes) == [i \in 1..Len(votes) |-> votes[i].confidence]

\* _resolve_consensus
resolve_consensus_strict(votes) ==
    IF Len(votes) = 0 THEN Resolution(FALSE, NoOption, 0, 1, "")
    ELSE LET order == option_order(votes)
             over == {i \in 1..Len(order) :
                        Cardinality(VotesFor(votes, order[i])) * CollectiveThresholdDen
                            > Len(votes) * CollectiveThresholdNum}
             won == order[MinOf(over)]
         IN IF over # {}
            THEN Resolution(TRUE, won,
                            SumOver(ConfidenceOf(votes), VotesFor(votes, won)),
                            Cardinality(VotesFor(votes, won)), "")
            ELSE Resolution(FALSE, NoOption,
                            SumOver(ConfidenceOf(votes), 1..Len(votes)),
                            Len(votes), "")

resolve_consensus(votes) ==
    IF Len(votes) = 0 THEN Resolution(FALSE, NoOption, 0, 1, "")
    ELSE LET order == option_order(votes)
             over == {i \in 1..Len(order) :
                        Cardinality(VotesFor(votes, order[i])) * CollectiveThresholdDen
                            >= Len(votes) * CollectiveThresholdNum}
             won == order[MinOf(over)]
         IN IF over # {}
            THEN Resolution(TRUE, won,
                            SumOver(ConfidenceOf(votes), VotesFor(votes, won)),
                            Cardinality(VotesFor(votes, won)), "")
            ELSE Resolution(FALSE, NoOption,
                            SumOver(ConfidenceOf(votes), 1..Len(votes)),
                            Len(votes), "")

\* _resolve_weighted_voting; known is the set of node ids _find_node_by_id finds.
resolve_weighted_voting(votes, known) ==
    LET counted == SelectSeq(votes, LAMBDA v : v.node \in known)
        order == option_order(counted)
        weight == [i \in 1..Len(counted) |-> InfluenceScore * counted[i].confidence]
        score == [k \in 1..Len(order) |-> SumOver(weight, VotesFor(counted, order[k]))]
        total_weight == SumOver(weight, 1..Len(counted))
        best == MinOf({k \in 1..Len(order) :
                         \A j \in 1..Len(order) : score[j] <= score[k]})
    IN IF Len(order) = 0
       THEN Resolution(FALSE, NoOption, 0, 1, "")
       ELSE IF total_weight > 0
            THEN Resolution(TRUE, order[best], score[best], total_weight, "")
            ELSE Resolution(TRUE, order[best], 0, 1, "")

\* _resolve_quorum; the division raises when the decision has no participant.
resolve_quorum_majority(votes, participants) ==
    IF Cardinality(participants) = 0 THEN Raised("ZeroDivisionError")
    ELSE IF Len(votes) * 2 < Cardinality(participants)
    THEN Resolution(FALSE, NoOption, 0, 1, "Insufficient participation")
    ELSE resolve_consensus(votes)

resolve_quorum(votes, participants) ==
    IF Cardinality(participants) = 0 THEN Raised("ZeroDivisionError")
    ELSE IF Len(votes) * QuorumDen < Cardinality(participants) * QuorumNum
    THEN Resolution(FALSE, NoOption, 0, 1, "Insufficient participation")
    ELSE resolve_consensus(votes)

\* list.sort() on the vote timestamps.
RECURSIVE sorted_times(_)
sorted_times(ts) ==
    IF ts = <<>> THEN <<>>
    ELSE LET rest == sorted_times(Tail(ts))
             below == SelectSeq(rest, LAMBDA t : t < Head(ts))
             above == SelectSeq(rest, LAMBDA t : t >= Head(ts))
         IN below \o <<Head(ts)>> \o above

\* _analyze_voting_patterns: patterns["temporal_clustering"], the gaps between
\* consecutive sorted timestamps (empty with fewer than two votes).
temporal_clustering(votes) ==
    LET vote_times == sorted_times([i \in 1..Len(votes) |-> votes[i].vote_timestamp])
    IN IF Len(votes) > 1
       THEN [i \in 1..(Len(votes) - 1) |-> vote_times[i + 1] - vote_times[i]]
       ELSE <<>>

\* _resolve_emergent with _detect_emergent_consensus: avg_gap is
\* sum(gaps) / len(gaps), and emergence_strength is min(1.0, 2.0 - avg_gap).
resolve_emergent_inclusive(votes, known) ==
    LET gaps == temporal_clustering(votes)
        total == SumOver(gaps, 1..Len(gaps))
    IN IF Len(gaps) > 0 /\ total <= Len(gaps)
       THEN IF 2 * Len(gaps) - total >= Len(gaps)
            THEN Resolution(TRUE, "emergent_consensus", 1, 1, "")
            ELSE Resolution(TRUE, "emergent_consensus",
                            2 * Len(gaps) - total, Len(gaps), "")
       ELSE resolve_weighted_voting(votes, known)

resolve_emergent(votes, known) ==
    LET gaps == temporal_clustering(votes)
        total == SumOver(gaps, 1..Len(gaps))
    IN IF Len(gaps) > 0 /\ total < Len(gaps)
       THEN IF 2 * Len(gaps) - total >= Len(gaps)
            THEN Resolution(TRUE, "emergent_consensus", 1, 1, "")
            ELSE Resolution(TRUE, "emergent_consensus",
                            2 * Len(gaps) - total, Len(gaps), "")
       ELSE resolve_weighted_voting(votes, known)

\* The dispatch of _resolve_hive_decision on decision.method.
resolve(d, known) ==
    CASE d.method = "consensus" -> resolve_consensus(d.votes)
      [] d.method = "weighted" -> resolve_weighted_voting(d.votes, known)
      [] d.method = "quorum" -> resolve_quorum(d.votes, d.participants)
      [] d.method = "emergent" -> resolve_emergent(d.votes, known)

\* HiveDecision as initiate_hive_decision builds it.
NewHiveDecision(id, method, participants) ==
    [decision_id |-> id, method |-> method, participants |-> participants,
     votes |-> <<>>, consensus_reached |-> FALSE, num |-> 0, den |-> 1,
     resolved |-> FALSE]
\* The assignments _resolve_hive_decision makes from the rule's dict.
Resolved(d, r) ==
    [d EXCEPT !.consensus_reached = r.consensus_reached,
              !.num = r.num, !.den = r.den, !.resolved = TRUE]
NoDecision == NewHiveDecision(-1, "consensus", {})

\* ------------------------------------------------------------ hive: nodes
HiveAgents == {"agent_a", "agent_b"}
\* The expertise vectors callers hand to initialize_hive_node.
ExpertiseVectors == {<<1, 0>>, <<1, 1>>, <<0, 1>>}
\* Bound of the model: the clock seconds in which hive calls are made.
MaxHiveTime == 1

\* node_id = f"hive_node_{agent_id}_{int(time.time())}"
NodeId(agent_id, t) == <<agent_id, t>>
NodeIds == {NodeId(a, t) : a \in HiveAgents, t \in 0..MaxHiveTime}

DotProduct(v, w) == SumOver([i \in 1..Len(v) |-> v[i] * w[i]], 1..Len(v))

\* _calculate_expertise_similarity(v, w) > 0.6, the test of
\* _establish_node_connections: the cosine is 0.0 for vectors of different
\* length or of magnitude 0, and dot / (|v| |w|) otherwise; with dot >= 0 the
\* comparison with 3/5 is made on the squares.
similar_enough(v, w) ==
    /\ Len(v) = Len(w)
    /\ DotProduct(v, v) # 0 /\ DotProduct(w, w) # 0
    /\ DotProduct(v, w) > 0
    /\ 25 * DotProduct(v, w) * DotProduct(v, w)
          > 9 * DotProduct(v, v) * DotProduct(w, w)

\* initialize_hive_node with _establish_node_connections: the table after the
\* call made at clock second t.
initialize_hive_node(tbl, agent_id, vec, t) ==
    LET id == NodeId(agent_id, t)
        others == (DOMAIN tbl) \ {id}
        near == {m \in others : similar_enough(vec, tbl[m].expertise_vector)}
    IN [m \in (DOMAIN tbl) \cup {id} |->
          IF m = id
          THEN [agent_id |-> agent_id, expertise_vector |-> vec, connections |-> near]
          ELSE IF m \in near
               THEN [tbl[m] EXCEPT !.connections = @ \cup {id}]
               ELSE tbl[m]]

NoNodes == [m \in {} |-> 0]

\* ------------------------------------------------------------- hive: Init
InitHive ==
    /\ decision = NoDecision
    /\ outcome = NoOutcome
    /\ nodes = NoNodes
    /\ active_decisions = [i \in {} |-> 0]
    /\ decisions = <<>>
    /\ decision_history = <<>>
    /\ hproc = <<>>

\* ------------------------------------------------------------------ swarms
\* (core/coordination/swarm_manager.py). Loads and task complexities are
\* counted in tenths.
SwarmTopology == {"hierarchical", "mesh", "collective", "adaptive"}
\* The keys of agent_manager.agent_registry in insertion order: the core,
\* the development and the forestry agents of initialize_default_registry.
RegistryOrder ==
    <<"project_supervisor_orchestrator", "research_orchestrator", "context_manager",
      "ios_developer", "backend_architect", "ai_engineer",
      "tree_analysis_specialist", "forestry_business_analyst">>
\* agent_manager.agent_registry: the specialization_domains and the
\* coordination_priority of every registered agent.
AgentRegistry ==
    [a \in {RegistryOrder[i] : i \in 1..Len(RegistryOrder)} |->
        CASE a = "project_supervisor_orchestrator" ->
                [domains |-> {"orchestration", "workflow_management"},
                 coordination_priority |-> 95]
          [] a = "research_orchestrator" ->
                [domains |-> {"research", "analysis", "synthesis"},
                 coordination_priority |-> 90]
          [] a = "context_manager" ->
                [domains |-> {"context_management", "memory_systems"},
                 coordination_priority |-> 85]
          [] a = "ios_developer" ->
                [domains |-> {"ios", "swift", "mobile", "apple_ecosystem"},
                 coordination_priority |-> 80]
          [] a = "backend_architect" ->
                [domains |-> {"backend", "api", "architecture", "databases"},
                 coordination_priority |-> 75]
          [] a = "ai_engineer" ->
                [domains |-> {"ai", "ml", "llm", "rag"},
                 coordination_priority |-> 85]
          [] a = "tree_analysis_specialist" ->
                [domains |-> {"forestry", "arboriculture", "tree_assessment"},
                 coordination_priority |-> 70]
          [] OTHER ->
                [domains |-> {"forestry_business", "pricing", "operations"},
                 coordination_priority |-> 65]]
\* The initial_agents lists of the create_swarm calls; "reviewer" is not in
\* the registry.
SwarmTeams ==
    {<<"project_supervisor_orchestrator", "reviewer", "backend_architect">>}
SwarmIds == {"swarm_a"}
\* task["complexity"] and task["time_critical"] of the coordinated tasks.
Complexities == {5, 9}
\* The subtasks of the strategy _generate_task_strategy returns.
NumSubtasks == 3
\* The aspects _collective_coordination has every agent analyse.
Aspects == {"requirements", "constraints", "opportunities", "risks"}
\* Bounds of the model: coordinate_swarm_task calls and clock seconds in one
\* run.
MaxCoordinations == 2
MaxSwarmTime == 1
\* The numbers of tasks of one gather that end by an exception.
GatherFailures == {0, 1}

\* _determine_swarm_role; every agent of the registry has capabilities.
determine_swarm_role(cfg, topology) ==
    CASE topology = "hierarchical" ->
            IF cfg.coordination_priority >= 90 THEN "queen"
            ELSE IF "orchestration" \in cfg.domains \/ "coordination" \in cfg.domains
                 THEN "coordinator"
            ELSE IF "research" \in cfg.domains \/ "analysis" \in cfg.domains
                 THEN "scout"
            ELSE "specialist"
      [] topology = "mesh" ->
            IF "coordination" \in cfg.domains THEN "coordinator" ELSE "worker"
      [] topology = "collective" -> "worker"
      [] OTHER -> "coordinator"

\* SwarmState as create_swarm builds it. order lists the keys of active_agents
\* in insertion order; task_queue holds the task ids; collective_memory maps
\* the task ids to the stored results (the "formation_context" entry is kept
\* apart).
NewSwarm(id, topology, initial_agents, ctx) ==
    LET order == SelectSeq(initial_agents, LAMBDA a : a \in DOMAIN AgentRegistry)
    IN [swarm_id |-> id,
        topology |-> topology,
        order |-> order,
        active_agents |->
            [a \in {order[i] : i \in 1..Len(order)} |->
                [role |-> determine_swarm_role(AgentRegistry[a], topology),
                 capabilities |-> Cardinality(AgentRegistry[a].domains),
                 current_load |-> 0]],
        task_queue |-> <<>>,
        formation_context |-> ctx,
        collective_memory |-> [k \in {} |-> 0]]

\* create_swarm(swarm_id, topology, initial_agents, task_context) on the
\* tables <<swarms, active_swarms>>: the tables after the call and the swarm it
\* returns.
create_swarm_overwrites(objs, active, id, topology, initial_agents, ctx) ==
    [swarms |-> Append(objs, NewSwarm(id, topology, initial_agents, ctx)),
     active_swarms |-> [i \in (DOMAIN active) \cup {id} |->
                          IF i = id THEN Len(objs) + 1 ELSE active[i]],
     returned |-> Len(objs) + 1]

create_swarm(objs, active, id, topology, initial_agents, ctx) ==
    IF id \in DOMAIN active
    THEN [swarms |-> objs, active_swarms |-> active, returned |-> active[id]]
    ELSE [swarms |-> Append(objs, NewSwarm(id, topology, initial_agents, ctx)),
          active_swarms |-> [i \in (DOMAIN active) \cup {id} |->
                               IF i = id THEN Len(objs) + 1 ELSE active[i]],
          returned |-> Len(objs) + 1]

\* task["task_id"] = f"{swarm_id}_{int(time.time())}"
TaskId(id, t) == <<id, t>>

\* The agents of a swarm with one of the given roles, in dict order.
WithRole(sw, roles) == SelectSeq(sw.order, LAMBDA a : sw.active_agents[a].role \in roles)

\* The queen of _hierarchical_coordination: the first agent with role queen,
\* else the first of sorted(agents, key=len(capabilities), reverse=True), a
\* stable sort; "none" in a swarm without agents.
queen_of(sw) ==
    LET queens == WithRole(sw, {"queen"})
        most == {i \in 1..Len(sw.order) :
                   \A j \in 1..Len(sw.order) :
                      sw.active_agents[sw.order[j]].capabilities
                         <= sw.active_agents[sw.order[i]].capabilities}
    IN IF Len(queens) > 0 THEN queens[1]
       ELSE IF Len(sw.order) > 0 THEN sw.order[MinOf(most)]
       ELSE "none"

\* _find_best_worker for a subtask without required_capabilities: the score is
\* 0 * trust_score - current_load, and the stable descending sort keeps the
\* first of the least loaded workers; "none" without workers.
find_best_worker(sw) ==
    LET workers == WithRole(sw, {"worker", "specialist"})
        least == {i \in 1..Len(workers) :
                    \A j \in 1..Len(workers) :
                       sw.active_agents[workers[i]].current_load
                          <= sw.active_agents[workers[j]].current_load}
    IN IF Len(workers) = 0 THEN "none" ELSE workers[MinOf(least)]

\* The topology _adaptive_coordination selects.
optimal_topology(complexity, time_critical, agent_count) ==
    IF complexity > 8 /\ ~time_critical THEN "collective"
    ELSE IF agent_count > 5 /\ complexity > 5 THEN "hierarchical"
    ELSE IF time_critical THEN "mesh"
    ELSE "hierarchical"

\* worker.current_load += 0.1
load_raised(sw, w) ==
    [sw EXCEPT !.active_agents[w].current_load = @ + 1]
\* worker.current_load -= 0.1; worker.current_load = max(0, worker.current_load)
load_lowered(sw, w) ==
    [sw EXCEPT !.active_agents[w].current_load = IF @ - 1 < 0 THEN 0 ELSE @ - 1]

\* The exit of coordinate_swarm_task's call of the pattern, by return, by an
\* exception or by cancellation: _adaptive_coordination's finally block puts
\* the saved topology back ("none": the call did not go through it).
leave_pattern_restores_on_return(sw, original, how) ==
    IF original # "none" /\ how = "return" THEN [sw EXCEPT !.topology = original]
    ELSE sw

leave_pattern(sw, original, how) ==
    IF original # "none" THEN [sw EXCEPT !.topology = original] ELSE sw

\* The dict a pattern returns, as far as the model follows it: the call that
\* built it, its status, its approach, its queen_agent ("none": the dict has
\* no such key), and the number of fan-out values used in it.
SwarmResult(c, status, approach, queen_agent, used) ==
    [by |-> c, status |-> status, approach |-> approach,
     queen_agent |-> queen_agent, used |-> used]
NoSwarmResult == SwarmResult(0, "none", "none", "none", 0)

\* swarm.collective_memory[task["task_id"]] = {"result": result, ...}
memory_written(sw, task_id, res) ==
    [sw EXCEPT !.collective_memory =
        [k \in (DOMAIN @) \cup {task_id} |-> IF k = task_id THEN res ELSE @[k]]]

\* One coordinate_swarm_task call: the swarm object it works on (0: unknown
\* id), its task id, the topology saved by _adaptive_coordination, where it
\* is suspended, the pattern it runs (approach), the subtask and worker in
\* progress, the size of the gather
\* in progress (batch), the number of values collected from the fan-out tasks
\* (delegation_results, proposals, the valid results of the gathers), and the
\* ghost counts of the fan-out tasks of the call: planned, ended (ran) and
\* failed (failures).
NewCoordination ==
    [swarm |-> 0, task_id |-> <<"none", 0>>, entered_as |-> "none",
     original |-> "none", pc |-> "rejected", approach |-> "none", k |-> 0,
     worker |-> "none",
     batch |-> 0, used |-> 0, planned |-> 0, ran |-> 0, failures |-> 0,
     result |-> NoSwarmResult]

\* -------------------------------------------------------------- swarm: Init
InitSwarm ==
    /\ swarms = <<>>
    /\ active_swarms = [i \in {} |-> 0]
    /\ bridge_swarms = [i \in {} |-> 0]
    /\ formed = <<>>
    /\ coord = <<>>
    /\ sevent = [op |-> "none", swarm_id |-> "none", other |-> FALSE,
                 returned |-> 0]

\* ------------------------------------------------------------ hive memory
\* (core/coordination/hive_intelligence.py). A text is the sequence of the
\* words str.split() cuts it into; confidences are counted in tenths.
HiveMemoryType == {"working", "episodic", "semantic", "collective"}

\* str.lower() on the words of the model.
Lower(w) == IF w = "AI" THEN "ai" ELSE w
\* set(text.lower().split())
tokens(text) == {Lower(text[i]) : i \in 1..Len(text)}

\* _calculate_memory_relevance: len(intersection) / len(union) as a fraction,
\* 0.0 when the query or the content has no word.
calculate_memory_relevance(query, content) ==
    LET query_terms == tokens(query)
        content_terms == tokens(content)
    IN IF query_terms = {} \/ content_terms = {}
       THEN [num |-> 0, den |-> 1]
       ELSE [num |-> Cardinality(query_terms \cap content_terms),
             den |-> Cardinality(query_terms \cup content_terms)]

\* The relevance threshold 0.3 of recall_collective_memory, and the number of
\* fragments it returns at most.
RelevanceThresholdNum == 3
RelevanceThresholdDen == 10
TopK == 10
\* memory_decay_rate = 0.95 and the removal threshold 0.1 of
\* decay_memory_relevance, as -ln(0.95) and -ln(0.1) in millionths; the
\* divisor 3600 of the elapsed seconds.
LnDecayRate == 51293
LnDropThreshold == 2302585
SecondsPerHour == 3600

\* HiveMemoryFragment as store_collective_memory builds it at time t. The
\* fragment_id names the type and the content (a hash of it). relevance_decay
\* is kept as the number h of hours it was decayed over: it is 0.95 ** h, and
\* 1.0 for h = 0.
NewFragment(memory_type, content, confidence, t) ==
    [fragment_id |-> <<memory_type, content>>,
     memory_type |-> memory_type,
     content |-> content,
     confidence_score |-> confidence,
     access_count |-> 0,
     last_accessed |-> t,
     decay_hours |-> 0]

\* self.memory_store[fragment_id] = fragment: a key the dict holds keeps its
\* place, a new key goes last.
store_collective_memory(store, memory_type, content, confidence, t) ==
    LET fragment == NewFragment(memory_type, content, confidence, t)
        held == {i \in 1..Len(store) : store[i].fragment_id = fragment.fragment_id}
    IN IF held = {} THEN Append(store, fragment)
       ELSE [i \in 1..Len(store) |-> IF i \in held THEN fragment ELSE store[i]]

\* ln(confidence_score) in millionths, for confidences of 0.1 to 1.0.
LnConfidence(c) ==
    CASE c = 1 -> -2302585 [] c = 2 -> -1609438 [] c = 3 -> -1203973
      [] c = 4 -> -916291  [] c = 5 -> -693147  [] c = 6 -> -510826
      [] c = 7 -> -356675  [] c = 8 -> -223144  [] c = 9 -> -105361
      [] OTHER -> 0
\* The sort key confidence_score * relevance_decay of recall_collective_memory
\* by its logarithm, which orders the fragments as the product does.
Score(f) == LnConfidence(f.confidence_score) - f.decay_hours * LnDecayRate

\* The tests of recall_collective_memory's loop on one fragment.
passes(f, query, memory_type, min_confidence) ==
    LET relevance == calculate_memory_relevance(query, f.content)
    IN /\ memory_type = "none" \/ f.memory_type = memory_type
       /\ f.confidence_score >= min_confidence
       /\ relevance.num * RelevanceThresholdDen > RelevanceThresholdNum * relevance.den

\* relevant_fragments.sort(key=..., reverse=True) and the slice [:n] on the
\* fragments at the positions hit of the store: the positions in descending
\* order of the key. The sort is stable: fragments of equal key keep the
\* order of the store.
RECURSIVE sorted_first(_, _, _)
sorted_first(store, hit, n) ==
    IF n = 0 \/ hit = {} THEN <<>>
    ELSE LET first == CHOOSE i \in hit :
                         \A j \in hit :
                            \/ Score(store[j]) < Score(store[i])
                            \/ Score(store[j]) = Score(store[i]) /\ i <= j
         IN <<first>> \o sorted_first(store, hit \ {first}, n - 1)

\* recall_collective_memory(query, memory_type, min_confidence) at time t
\* (memory_type "none": no type given): the store after the call and the list
\* it returns, as the positions of the fragments in the store.
recall_returns_all(store, query, memory_type, min_confidence, t) ==
    LET hit == {i \in 1..Len(store) : passes(store[i], query, memory_type, min_confidence)}
    IN [memory_store |->
           [i \in 1..Len(store) |->
               IF i \in hit
               THEN [store[i] EXCEPT !.access_count = @ + 1, !.last_accessed = t]
               ELSE store[i]],
        returned |-> sorted_first(store, hit, Cardinality(hit))]

recall_collective_memory(store, query, memory_type, min_confidence, t) ==
    LET hit == {i \in 1..Len(store) : passes(store[i], query, memory_type, min_confidence)}
    IN [memory_store |->
           [i \in 1..Len(store) |->
               IF i \in hit
               THEN [store[i] EXCEPT !.access_count = @ + 1, !.last_accessed = t]
               ELSE store[i]],
        returned |-> sorted_first(store, hit, TopK)]

\* relevance_decay < 0.1
below_threshold(f) == f.decay_hours * LnDecayRate > LnDropThreshold

\* decay_memory_relevance at time t: every fragment is decayed over the hours
\* since its last access, then the fragments below the threshold are deleted.
decay_keeps_all(store, t) ==
    [i \in 1..Len(store) |->
        [store[i] EXCEPT !.decay_hours =
            @ + (t - store[i].last_accessed) \div SecondsPerHour]]

decay_memory_relevance(store, t) ==
    LET decayed == [i \in 1..Len(store) |->
                      [store[i] EXCEPT !.decay_hours =
                          @ + (t - store[i].last_accessed) \div SecondsPerHour]]
    IN SelectSeq(decayed, LAMBDA f : ~below_threshold(f))

\* The contents of the memory calls: the text of the bridge's example and
\* texts that share three words with it.
ExampleContent == <<"AI", "development", "needs", "testing">>
NoteContent(i) == <<"AI", "development", "needs", ToString(i)>>

NoMemoryEvent ==
    [op |-> "none", query |-> <<>>, memory_type |-> "none", confidence |-> 0,
     returned |-> <<>>]

\* ------------------------------------------------------------- memory: Init
InitMemory ==
    /\ memory_store = <<>>
    /\ mevent = NoMemoryEvent
\* ------------------------------------------------------------ agent manager
\* (core/agents/agent_manager.py). agent_registry is kept as the list of its
\* keys in insertion order, with the configurations in AgentRegistry;
\* active_agents as the set of its keys: its values are the registered
\* configurations themselves.
\* The agent ids of the calls; "reviewer" is not registered.
AgentIds ==
    {"project_supervisor_orchestrator", "context_manager", "ios_developer",
     "ai_engineer", "reviewer"}
\* The required_capabilities lists of find_agents_by_capabilities.
RequiredCapabilities ==
    {{"ai", "context_management"}, {"ios", "mobile", "orchestration"},
     {"forestry", "pricing", "rag", "api"}, {"design"}, {}}

\* suitable_agents.sort(key=coordination_priority, reverse=True) on the ids
\* of a list: a stable sort, ids of equal priority keep the order of the
\* list.
RECURSIVE sorted_by_priority(_)
sorted_by_priority(ids) ==
    IF ids = <<>> THEN <<>>
    ELSE LET first == CHOOSE i \in 1..Len(ids) :
                         \A j \in 1..Len(ids) :
                            \/ AgentRegistry[ids[j]].coordination_priority
                                  < AgentRegistry[ids[i]].coordination_priority
                            \/ /\ AgentRegistry[ids[j]].coordination_priority
                                     = AgentRegistry[ids[i]].coordination_priority
                               /\ i <= j
         IN <<ids[first]>> \o
            sorted_by_priority([k \in 1..Len(ids) - 1 |->
                                   IF k < first THEN ids[k] ELSE ids[k + 1]])

\* find_agents_by_capabilities(required_capabilities) on a registry; every
\* registered agent has capabilities.
find_agents_by_capabilities(registry, required) ==
    sorted_by_priority(
        SelectSeq(registry, LAMBDA a : AgentRegistry[a].domains \cap required # {}))

\* activate_agent(agent_id, task_context) on a registry and the active
\* agents, where validate_resource_requirements answers resources_ok: the
\* active agents after the call and what it returns, the registered
\* configuration (named by its agent_id) or None.
activate_unregistered(registry, active, agent_id, resources_ok) ==
    IF agent_id \in active
    THEN [active_agents |-> active, returned |-> agent_id]
    ELSE IF ~resources_ok
    THEN [active_agents |-> active, returned |-> "None"]
    ELSE [active_agents |-> active \cup {agent_id}, returned |-> agent_id]

activate_agent(registry, active, agent_id, resources_ok) ==
    IF \A i \in 1..Len(registry) : registry[i] # agent_id
    THEN [active_agents |-> active, returned |-> "None"]
    ELSE IF agent_id \in active
    THEN [active_agents |-> active, returned |-> agent_id]
    ELSE IF ~resources_ok
    THEN [active_agents |-> active, returned |-> "None"]
    ELSE [active_agents |-> active \cup {agent_id}, returned |-> agent_id]

\* deactivate_agent(agent_id) on the active agents.
deactivate_any(active, agent_id) ==
    IF agent_id \in active /\ Cardinality(active) > 1
    THEN active \ {agent_id, CHOOSE a \in active : a # agent_id}
    ELSE active \ {agent_id}

deactivate_agent(active, agent_id) ==
    IF agent_id \in active THEN active \ {agent_id} ELSE active

\* shutdown(): deactivate_agent for every key of a copy of active_agents;
\* no call in the loop suspends.
RECURSIVE shutdown(_, _)
shutdown(active, keys) ==
    IF keys = {} THEN active
    ELSE LET agent_id == CHOOSE a \in keys : TRUE
         IN shutdown(deactivate_agent(active, agent_id), keys \ {agent_id})

NoAgentEvent ==
    [op |-> "none", agent_id |-> "none", required |-> {}, returned |-> <<>>,
     before |-> {}]

\* -------------------------------------------------------------- agents: Init
InitAgents ==
    /\ agent_registry = RegistryOrder
    /\ active_agents = {}
    /\ aevent = NoAgentEvent
\* ------------------------------------------------------ swarm-hive coordinator
\* (core/coordination/swarm_hive_coordinator.py). Complexities are counted in
\* tenths, efficiencies in millionths.
CoordinationMode == {"swarm_only", "hive_only", "hybrid", "adaptive"}
\* hybrid_threshold = 0.7 in tenths; the default 0.5 of a missing efficiency
\* in millionths; adaptive_learning_rate = 0.1 as a fraction of 1 over
\* LearningRateDen; a tenth in millionths.
HybridThreshold == 7
DefaultEfficiency == 500000
LearningRateDen == 10
Tenth == 100000

\* self.performance_metrics.get(key, 0.5)
metric(metrics, key) ==
    IF key \in DOMAIN metrics THEN metrics[key] ELSE DefaultEfficiency

\* _select_coordination_mode(task) under the given performance_metrics.
select_coordination_mode(metrics, task) ==
    IF task.complexity > HybridThreshold /\ ~task.time_critical THEN "hybrid"
    ELSE IF task.time_critical /\ task.capabilities <= 5 THEN "swarm_only"
    ELSE IF task.capabilities > 8 THEN "hive_only"
    ELSE IF task.complexity < 3
    THEN IF metric(metrics, "swarm_avg_efficiency")
               >= metric(metrics, "hive_avg_efficiency")
         THEN "swarm_only" ELSE "hive_only"
    ELSE "hybrid"

\* The mode coordinate_task runs the task in.
mode_of(metrics, task) ==
    IF task.coordination_mode \in {"none", "adaptive"}
    THEN select_coordination_mode(metrics, task)
    ELSE task.coordination_mode

\* mode_key = f"{mode.value}_avg_efficiency"
efficiency_key(mode) ==
    CASE mode = "swarm_only" -> "swarm_only_avg_efficiency"
      [] mode = "hive_only" -> "hive_only_avg_efficiency"
      [] OTHER -> "hybrid_avg_efficiency"

\* _update_performance_metrics(mode, result, duration) for a result of the
\* given efficiency_score: the first score of a mode is stored as it is, the
\* later ones enter the exponential moving average. The averages of the
\* durations, which nothing reads, are left out.
update_performance_metrics(metrics, mode, efficiency_score) ==
    LET mode_key == efficiency_key(mode)
    IN [k \in (DOMAIN metrics) \cup {mode_key} |->
          IF k # mode_key THEN metrics[k]
          ELSE IF mode_key \notin DOMAIN metrics THEN efficiency_score
          ELSE (metrics[k] * (LearningRateDen - 1) + efficiency_score)
                  \div LearningRateDen]

\* The tasks of the coordinate_task calls: complexity, the number of
\* required_capabilities, time_critical and coordination_mode ("none": not
\* given), and the efficiency_score of the results their coordinations return.
CoordinationTasks ==
    [task_id : {"task_a"}, complexity : {2, 3, 7, 8}, capabilities : {5, 8, 9},
     time_critical : BOOLEAN,
     coordination_mode : {"none"} \cup CoordinationMode]
EfficiencyScores == {2 * Tenth, 9 * Tenth}

NoCoordinationEvent ==
    [op |-> "none", task |-> [task_id |-> "none"], mode |-> "none"]

\* --------------------------------------------------------- coordinator: Init
InitCoordinator ==
    /\ performance_metrics = [k \in {} |-> 0]
    /\ active_coordinations = [k \in {} |-> 0]
    /\ coordination_history = <<>>
    /\ ctasks = <<>>
    /\ cevent = NoCoordinationEvent

\* --------------------------------------------- swarm lifecycle: operators
\* dissolve_swarm(swarm_id) on the swarm objects and the tables
\* <<active_swarms, swarm_history, global_memory>>: the tables after the call
\* and the value it returns. The archive entry holds the keys of the swarm's
\* collective_memory; global_memory is keyed by the swarm id.
dissolve_swarm(objs, active, history, memory, id) ==
    IF id \notin DOMAIN active
    THEN [active_swarms |-> active, swarm_history |-> history,
          global_memory |-> memory, returned |-> FALSE]
    ELSE LET sw == objs[active[id]]
         IN [active_swarms |-> [i \in (DOMAIN active) \ {id} |-> active[i]],
             swarm_history |->
                 Append(history, [swarm_id |-> id, topology |-> sw.topology,
                                  final_memory |-> DOMAIN sw.collective_memory,
                                  agent_count |-> Len(sw.order)]),
             global_memory |->
                 [k \in (DOMAIN memory) \cup {id} |->
                     IF k = id
                     THEN [successful_patterns |-> DOMAIN sw.collective_memory,
                           agent_combinations |-> sw.order]
                     ELSE memory[k]],
             returned |-> TRUE]

\* The topology _coordinate_swarm_only asks create_swarm for.
swarm_only_topology(complexity, time_critical, capabilities) ==
    IF complexity > 8 THEN "collective"
    ELSE IF time_critical THEN "mesh"
    ELSE IF capabilities > 6 THEN "hierarchical"
    ELSE "adaptive"

\* swarm_id = f"swarm_{task.task_id}"
SwarmOnlyId(task_id) == "swarm_" \o task_id

\* selected_agents[:8]
MaxSwarmSize == 8
limited(selected_agents) ==
    SubSeq(selected_agents, 1,
           IF Len(selected_agents) < MaxSwarmSize THEN Len(selected_agents)
           ELSE MaxSwarmSize)

\* One call of _coordinate_swarm_only: pc is "coordinating" while it awaits
\* coordinate_swarm_task, "returned" after its return, "cancelled" when its
\* task was cancelled; fresh tells whether create_swarm made the swarm, and
\* dissolved is the value its dissolve_swarm returned.
NewRun(task_id, s, fresh, c) ==
    [task_id |-> task_id, swarm_id |-> SwarmOnlyId(task_id), swarm |-> s,
     fresh |-> fresh, call |-> c, pc |-> "coordinating", dissolved |-> FALSE]

\* ------------------------------------------------------- lifecycle: Init
InitLifecycle ==
    /\ swarm_history = <<>>
    /\ global_memory = [k \in {} |-> 0]
    /\ runs = <<>>

\* ------------------------------------------------------------ bridge: Init
NoCommand == [kind |-> "none", index |-> 0]

InitBridge ==
    /\ running = TRUE
    /\ conn = "open"
    /\ received = <<>>
    /\ sent = <<>>
    /\ pending = NoCommand

\* --------------------------------------------------------------------- Init
InitCB ==
    /\ breaker = NewCircuitBreaker
    /\ pc = [c \in Calls |-> "idle"]
    /\ event = [kind |-> "init", call |-> 0]
    /\ streak = 0
    /\ lastFail = -1
    /\ okRun = 0

InitRes ==
    /\ circuit_breakers = InitialBreakers
    /\ local_breakers = InitialBreakers
    /\ wrapper = "none"
    /\ cname = DecoName
    /\ rpc = "idle"
    /\ attempt = 0
    /\ last_exception = NoException
    /\ result = 0
    /\ log = <<>>
    /\ fc0 = 0
    /\ decoStreak = 0
    /\ decoLastFail = -1

Init == now = 0 /\ InitCB /\ InitRes /\ InitHive /\ InitSwarm /\ InitMemory /\ InitAgents
        /\ InitCoordinator /\ InitLifecycle /\ InitBridge

\* ------------------------------------------- concurrent calls on one breaker
\* Caller c enters CircuitBreaker.call: the gate runs, and an admitted call
\* starts func and suspends at the await.
CallBegin(c) ==
    /\ pc[c] = "idle"
    /\ LET g == call_gate(breaker, now)
       IN  /\ breaker' = g.cb
           /\ pc' = [pc EXCEPT ![c] = IF g.admitted THEN "running" ELSE "idle"]
           /\ event' = [kind |-> IF g.admitted THEN "admitted" ELSE "rejected",
                        call |-> c]
           /\ okRun' = IF g.cb.state # breaker.state THEN 0 ELSE okRun
    /\ UNCHANGED <<now, streak, lastFail>>
    /\ UNCHANGED resVars
    /\ UNCHANGED coordVars

\* func returned within the timeout: _on_success, the result is returned.
CallSucceed(c) ==
    /\ pc[c] = "running"
    /\ breaker' = on_success(breaker)
    /\ pc' = [pc EXCEPT ![c] = "idle"]
    /\ event' = [kind |-> "success", call |-> c]
    /\ streak' = 0
    /\ okRun' = IF okRun < SuccessThreshold THEN okRun + 1 ELSE okRun
    /\ UNCHANGED <<now, lastFail>>
    /\ UNCHANGED resVars
    /\ UNCHANGED coordVars

\* func raised, or wait_for timed out: _on_failure, AgentError is raised.
CallFail(c) ==
    /\ pc[c] = "running"
    /\ breaker' = on_failure(breaker, now)
    /\ pc' = [pc EXCEPT ![c] = "idle"]
    /\ event' = [kind |-> "failure", call |-> c]
    /\ streak' = IF streak < FailureThreshold + MaxCalls THEN streak + 1 ELSE streak
    /\ lastFail' = now
    /\ okRun' = 0
    /\ UNCHANGED now
    /\ UNCHANGED resVars
    /\ UNCHANGED coordVars

Tick ==
    /\ now < MaxTime
    /\ now' = now + 1
    /\ event' = [kind |-> "tick", call |-> 0]
    /\ UNCHANGED <<breaker, pc, streak, lastFail, okRun>>
    /\ UNCHANGED resVars
    /\ UNCHANGED coordVars

NextCB ==
    \/ \E c \in Calls : CallBegin(c)
    \/ \E c \in Calls : CallSucceed(c)
    \/ \E c \in Calls : CallFail(c)
    \/ Tick

SpecCB == Init /\ [][NextCB]_vars

\* ------------------------------------------------- RetryHandler.retry on func
\* The clock advances between the steps of an invocation and while it sleeps.
Elapse ==
    /\ now < MaxElapse
    /\ now' = now + 1
    /\ UNCHANGED cbVars
    /\ UNCHANGED resVars
    /\ UNCHANGED coordVars

\* RetryHandler.retry(operation, func) is entered (directly, or through the
\* wrapper of with_retry): func is the operation itself.
RetryStart ==
    /\ rpc \in Resting
    /\ wrapper' = "retry"
    /\ rpc' = retry_enter
    /\ attempt' = 0
    /\ last_exception' = NoException
    /\ result' = 0
    /\ log' = <<>>
    /\ fc0' = 0
    /\ UNCHANGED <<now, cname, circuit_breakers, local_breakers, decoStreak,
                   decoLastFail>>
    /\ UNCHANGED cbVars
    /\ UNCHANGED coordVars

\* Mutant: the value of a successful retry (attempt > 0) is not returned.
RetryCall_drops_result(out) ==
    /\ wrapper = "retry"
    /\ rpc = "attempt"
    /\ rpc' = retry_step(attempt, out.kind)
    /\ result' = IF out.kind = "ok" /\ attempt = 0 THEN out.val ELSE result
    /\ last_exception' = IF out.kind = "ok" THEN last_exception
                         ELSE [kind |-> out.kind, at |-> attempt + 1]
    /\ log' = Append(log, CallEntry(out.kind, out.kind, out.val))
    /\ UNCHANGED <<now, wrapper, cname, attempt, circuit_breakers, local_breakers,
                   fc0, decoStreak, decoLastFail>>
    /\ UNCHANGED cbVars
    /\ UNCHANGED coordVars

\* One pass of the loop body: func is awaited and ends as `out`.
RetryCall(out) ==
    /\ wrapper = "retry"
    /\ rpc = "attempt"
    /\ rpc' = retry_step(attempt, out.kind)
    /\ result' = IF out.kind = "ok" THEN out.val ELSE result
    /\ last_exception' = IF out.kind = "ok" THEN last_exception
                         ELSE [kind |-> out.kind, at |-> attempt + 1]
    /\ log' = Append(log, CallEntry(out.kind, out.kind, out.val))
    /\ UNCHANGED <<now, wrapper, cname, attempt, circuit_breakers, local_breakers,
                   fc0, decoStreak, decoLastFail>>
    /\ UNCHANGED cbVars
    /\ UNCHANGED coordVars

\* await asyncio.sleep(delay) is over; the loop goes to the next index.
RetrySleep ==
    /\ rpc = "sleep"
    /\ rpc' = "attempt"
    /\ attempt' = attempt + 1
    /\ log' = Append(log, SleepEntry)
    /\ UNCHANGED <<now, wrapper, cname, last_exception, result, circuit_breakers,
                   local_breakers, fc0, decoStreak, decoLastFail>>
    /\ UNCHANGED cbVars
    /\ UNCHANGED coordVars

NextRetry ==
    \/ RetryStart
    \/ \E out \in Outcomes : RetryCall(out)
    \/ RetrySleep
    \/ Elapse

SpecRetry == Init /\ [][NextRetry]_vars

\* ------------------------------------ execute_with_resilience and decorators
\* The table of the manager the invocation in progress uses.
CurBreakers == IF wrapper \in Decorators THEN local_breakers ELSE circuit_breakers

OpRan(l) == \E i \in 1..Len(l) : l[i].e = "call" /\ l[i].op # "not_invoked"

\* The ghost bookkeeping when a decorated invocation ends at position pos with
\* the log l: a run of failing invocations grows when the function ran and the
\* invocation raised, and ends when the invocation returned.
DecoStreakAfter(pos, l) ==
    IF pos = "returned" THEN 0
    ELSE IF pos = "raised" /\ OpRan(l)
    THEN (IF decoStreak <= FailureThreshold THEN decoStreak + 1 ELSE decoStreak)
    ELSE decoStreak

DecoLastFailAfter(pos, l) ==
    IF pos = "raised" /\ OpRan(l) THEN now ELSE decoLastFail

\* ErrorRecoveryManager.execute_with_resilience(n, op) on the manager the
\* application keeps: get_circuit_breaker, then retry(wrapped_operation).
ExecStart(n) ==
    /\ rpc \in Resting
    /\ wrapper' = "execute_with_resilience"
    /\ cname' = n
    /\ circuit_breakers' = get_circuit_breaker(circuit_breakers, n)
    /\ fc0' = circuit_breakers'[n].failure_count
    /\ rpc' = retry_enter
    /\ attempt' = 0
    /\ last_exception' = NoException
    /\ result' = 0
    /\ log' = <<>>
    /\ UNCHANGED <<now, local_breakers, decoStreak, decoLastFail>>
    /\ UNCHANGED cbVars
    /\ UNCHANGED coordVars

\* The wrapper of with_resilience(DecoName) is called: it builds an
\* ErrorRecoveryManager and calls execute_with_resilience on it.
DecoResStart ==
    /\ rpc \in Resting
    /\ wrapper' = "with_resilience"
    /\ cname' = DecoName
    /\ local_breakers' = get_circuit_breaker(InitialBreakers, DecoName)
    /\ fc0' = local_breakers'[DecoName].failure_count
    /\ rpc' = retry_enter
    /\ attempt' = 0
    /\ last_exception' = NoException
    /\ result' = 0
    /\ log' = <<>>
    /\ UNCHANGED <<now, circuit_breakers, decoStreak, decoLastFail>>
    /\ UNCHANGED cbVars
    /\ UNCHANGED coordVars

\* One pass of the retry loop under execute_with_resilience: func is
\* wrapped_operation, that is circuit_breaker.call(op), op behaving as `out`.
ResCall(out) ==
    /\ wrapper \in {"execute_with_resilience", "with_resilience"}
    /\ rpc = "attempt"
    /\ LET r == circuit_call(CurBreakers[cname], now, out)
           pos == retry_step(attempt, r.seen)
           entry == CallEntry(IF r.invoked THEN out.kind ELSE "not_invoked",
                              r.seen, r.val)
       IN  /\ IF wrapper \in Decorators
              THEN /\ local_breakers' = [local_breakers EXCEPT ![cname] = r.cb]
                   /\ UNCHANGED circuit_breakers
                   /\ decoStreak' = DecoStreakAfter(pos, Append(log, entry))
                   /\ decoLastFail' = DecoLastFailAfter(pos, Append(log, entry))
              ELSE /\ circuit_breakers' = [circuit_breakers EXCEPT ![cname] = r.cb]
                   /\ UNCHANGED <<local_breakers, decoStreak, decoLastFail>>
           /\ rpc' = pos
           /\ result' = IF r.seen = "ok" THEN r.val ELSE result
           /\ last_exception' = IF r.seen = "ok" THEN last_exception
                                ELSE [kind |-> r.seen, at |-> attempt + 1]
           /\ log' = Append(log, entry)
    /\ UNCHANGED <<now, wrapper, cname, attempt, fc0>>
    /\ UNCHANGED cbVars
    /\ UNCHANGED coordVars

\* One invocation of a function decorated with with_circuit_breaker(DecoName):
\* the wrapper builds an ErrorRecoveryManager, gets the circuit and makes one
\* circuit_breaker.call(func), func behaving as `out`.
DecoCBCall(out) ==
    /\ rpc \in Resting
    /\ LET d == get_circuit_breaker(InitialBreakers, DecoName)
           r == circuit_call(d[DecoName], now, out)
           pos == IF r.seen = "ok" THEN "returned" ELSE "raised"
           entry == CallEntry(IF r.invoked THEN out.kind ELSE "not_invoked",
                              r.seen, r.val)
       IN  /\ local_breakers' = [d EXCEPT ![DecoName] = r.cb]
           /\ fc0' = d[DecoName].failure_count
           /\ rpc' = pos
           /\ result' = r.val
           /\ last_exception' = IF r.seen = "ok" THEN NoException
                                ELSE [kind |-> r.seen, at |-> 1]
           /\ log' = <<entry>>
           /\ decoStreak' = DecoStreakAfter(pos, <<entry>>)
           /\ decoLastFail' = DecoLastFailAfter(pos, <<entry>>)
    /\ wrapper' = "with_circuit_breaker"
    /\ cname' = DecoName
    /\ attempt' = 0
    /\ UNCHANGED <<now, circuit_breakers>>
    /\ UNCHANGED cbVars
    /\ UNCHANGED coordVars

NextRes ==
    \/ \E n \in Names : ExecStart(n)
    \/ DecoResStart
    \/ \E out \in Outcomes : ResCall(out)
    \/ \E out \in Outcomes : DecoCBCall(out)
    \/ RetrySleep
    \/ Elapse

SpecRes == Init /\ [][NextRes]_vars

\* ------------------------------------------------ circuit breaker properties
BeginKinds == {"admitted", "rejected"}

\* C1: from a closed circuit, the failed call that completes a run of exactly
\* FailureThreshold consecutive failures leaves the circuit open; and every call
\* made on an open circuit while no more than RecoveryTimeout has elapsed since
\* the last failure is rejected without the wrapped operation being started.
C1_OpensThenRejects ==
    [][ /\ (breaker.state = "closed" /\ event'.kind = "failure"
              /\ streak' = FailureThreshold)
           => breaker'.state = "open"
        /\ (breaker.state = "open" /\ event'.kind \in BeginKinds
              /\ now - lastFail <= RecoveryTimeout)
           => (event'.kind = "rejected" /\ pc' = pc) ]_vars

C1_Witness ==
    /\ breaker.state = "open"
    /\ streak = FailureThreshold
    /\ event.kind = "rejected"
    /\ now - lastFail <= RecoveryTimeout

\* C2 (as claimed): in half_open every call is admitted, SuccessThreshold
\* consecutive successes close the circuit with both counters reset, and any
\* single failed call moves it back to open, for every interleaving of calls.
C2_HalfOpenAsClaimed ==
    [][ breaker.state = "half_open" =>
          /\ (event'.kind \in BeginKinds
                => (event'.kind = "admitted" /\ pc'[event'.call] = "running"))
          /\ (event'.kind = "success" /\ okRun' >= SuccessThreshold
                => (/\ breaker'.state = "closed"
                    /\ breaker'.failure_count = 0
                    /\ breaker'.success_count = 0))
          /\ (event'.kind = "failure" => breaker'.state = "open") ]_vars

\* C9: while the circuit is closed a successful call resets the failure count,
\* the circuit opens exactly on the failed call that completes a run of
\* FailureThreshold failures with no success between them, and any shorter run
\* leaves it closed.
C9_ClosedCountsConsecutiveFailures ==
    [][ breaker.state = "closed" =>
          /\ (event'.kind = "success"
                => (breaker'.failure_count = 0 /\ breaker'.state = "closed"))
          /\ (breaker'.state = "open"
                <=> (event'.kind = "failure" /\ streak' = FailureThreshold))
          /\ (breaker'.state = "closed"
                <=> ~(event'.kind = "failure" /\ streak' = FailureThreshold))
          /\ (breaker'.state = "closed" => streak' < FailureThreshold) ]_vars

C9_Witness ==
    /\ breaker.state = "closed"
    /\ event.kind = "success"
    /\ lastFail >= 0
    /\ breaker.failure_count = 0
    /\ breaker.last_failure_time = lastFail

\* C10: an open circuit rejects every call until more than RecoveryTimeout has
\* elapsed since the last recorded failure; the first call after that moves the
\* circuit to half_open and is admitted; a rejected call changes neither
\* failure_count nor last_failure_time (nor anything else of the breaker).
C10_OpenRejectsUntilTimeout ==
    [][ (breaker.state = "open" /\ event'.kind \in BeginKinds) =>
          IF now - lastFail > RecoveryTimeout
          THEN /\ event'.kind = "admitted"
               /\ breaker'.state = "half_open"
               /\ pc'[event'.call] = "running"
          ELSE /\ event'.kind = "rejected"
               /\ breaker'.failure_count = breaker.failure_count
               /\ breaker'.last_failure_time = breaker.last_failure_time
               /\ breaker'.state = "open"
               /\ lastFail' = lastFail
               /\ pc' = pc ]_vars

C10_Witness ==
    /\ breaker.state = "half_open"
    /\ event.kind = "admitted"
    /\ lastFail >= 0
    /\ now - lastFail > RecoveryTimeout

\* ------------------------------------------------- resilience layer properties
ResilienceWrappers == {"execute_with_resilience", "with_resilience"}
CallIdx(l) == {i \in 1..Len(l) : l[i].e = "call"}
NumCalls(l) == Cardinality(CallIdx(l))
NumSleeps(l) == Len(l) - NumCalls(l)
\* Calls of circuit_breaker.call that ran func, each recorded on the circuit
\* by _on_success or _on_failure.
NumRecorded(l) == Cardinality({i \in CallIdx(l) : l[i].op # "not_invoked"})
RecoverableKinds == {"agent_error", "exception"}

\* C3 (as claimed): the circuit of a decorated function is kept across its
\* invocations, so an invocation that starts after FailureThreshold decorated
\* invocations in a row have run the function and failed, within
\* RecoveryTimeout of the last of them, does not run the function.
C3_DecoratedCircuitPersistsAsClaimed ==
    [][ ( /\ \E out \in Outcomes : DecoCBCall(out) \/ ResCall(out)
          /\ wrapper' \in Decorators
          /\ decoStreak >= FailureThreshold
          /\ now - decoLastFail <= RecoveryTimeout )
        => log'[Len(log')].op = "not_invoked" ]_vars

\* C4 (as claimed): one execute_with_resilience invocation is recorded on the
\* circuit as a single outcome, and raises its failure count by at most one.
C4_OneOutcomePerInvocationAsClaimed ==
    wrapper \in ResilienceWrappers =>
        /\ NumRecorded(log) <= 1
        /\ CurBreakers[cname].failure_count <= fc0 + 1

\* C5 (as claimed): under execute_with_resilience a run of the operation that
\* raises a non-recoverable error (ResourceExhaustionError) is not retried: it
\* is the last thing the invocation does, and the invocation raises.
C5_NonRecoverableNotRetriedAsClaimed ==
    wrapper \in ResilienceWrappers =>
        \A i \in CallIdx(log) :
            log[i].op = "non_recoverable" => (i = Len(log) /\ rpc = "raised")

\* C6: one RetryHandler.retry invocation calls func at most MaxAttempts times;
\* when every attempt fails with a recoverable error it calls func exactly
\* MaxAttempts times, sleeps between the attempts only (the last log entry is
\* a call), and raises the error of the last attempt.
C6_RetryBoundedAndExhausts ==
    wrapper = "retry" =>
        /\ NumCalls(log) <= MaxAttempts
        /\ ( /\ rpc \in {"returned", "raised"}
             /\ \A i \in CallIdx(log) : log[i].op \in RecoverableKinds )
           => /\ NumCalls(log) = MaxAttempts
              /\ NumSleeps(log) = MaxAttempts - 1
              /\ log[Len(log)].e = "call"
              /\ rpc = "raised"
              /\ last_exception = [kind |-> log[Len(log)].op, at |-> MaxAttempts]

C6_Witness ==
    /\ wrapper = "retry"
    /\ rpc = "raised"
    /\ NumCalls(log) = MaxAttempts
    /\ \A i \in CallIdx(log) : log[i].op \in RecoverableKinds

\* C7: when func fails k times with recoverable errors and then succeeds
\* (k < MaxAttempts), retry has called it exactly k+1 times, has slept exactly
\* once between each two consecutive calls (k sleeps), and returns the value of
\* the (k+1)-th call.
C7_RetryThenSuccess ==
    ( /\ wrapper = "retry"
      /\ Len(log) > 0
      /\ log[Len(log)].e = "call"
      /\ log[Len(log)].op = "ok"
      /\ \A i \in CallIdx(log) \ {Len(log)} : log[i].op \in RecoverableKinds )
    => LET k == NumCalls(log) - 1
       IN  /\ k < MaxAttempts
           /\ Len(log) = 2 * k + 1
           /\ \A i \in 1..Len(log) :
                log[i].e = (IF i % 2 = 1 THEN "call" ELSE "sleep")
           /\ rpc = "returned"
           /\ result = log[Len(log)].val

C7_Witness ==
    /\ wrapper = "retry"
    /\ rpc = "returned"
    /\ NumCalls(log) = MaxAttempts
    /\ NumSleeps(log) = MaxAttempts - 1
    /\ log[1].op \in RecoverableKinds
    /\ result = log[Len(log)].val

\* C8: when an attempt inside retry raises an error marked recoverable=false,
\* no further attempt and no sleep follows it, and that error is raised.
C8_NonRecoverableAborts ==
    wrapper = "retry" =>
        \A i \in CallIdx(log) :
            log[i].op = "non_recoverable"
            => /\ i = Len(log)
               /\ rpc = "raised"
               /\ last_exception = [kind |-> "non_recoverable", at |-> NumCalls(log)]

C8_Witness ==
    /\ wrapper = "retry"
    /\ rpc = "raised"
    /\ Len(log) = 1
    /\ log[1].op = "non_recoverable"
    /\ 1 < MaxAttempts

\* ------------------------------------- hive: the resolution of one decision
\* initiate_hive_decision registers a decision with the given method in a hive
\* whose nodes belong to k agents.
DecisionInitiated(method, k) ==
    /\ decision = NoDecision
    /\ decision' = NewHiveDecision(0, method, 1..k)
    /\ UNCHANGED <<now, outcome>>
    /\ UNCHANGED <<cbVars, resVars, nodeVars, hiveVars, swarmVars, serviceVars>>

\* _collect_node_vote stores the vote of one more node. vote_timestamp is read
\* right before the vote is stored, so the dict lists the votes in time order.
VoteLands(o, c, t) ==
    /\ decision # NoDecision
    /\ outcome.kind = "none"
    /\ decision.participants # {}
    /\ Len(decision.votes) < MaxVotes
    /\ Len(decision.votes) > 0
          => t >= decision.votes[Len(decision.votes)].vote_timestamp
    /\ decision' = [decision EXCEPT
                      !.votes = Append(@, Vote(Len(@) + 1, o, c, t))]
    /\ UNCHANGED <<now, outcome>>
    /\ UNCHANGED <<cbVars, resVars, nodeVars, hiveVars, swarmVars, serviceVars>>

\* _resolve_hive_decision up to the assignments of consensus_reached,
\* confidence and resolved_at; a rule that raises leaves the decision as it was.
ResolveDecision ==
    /\ decision # NoDecision
    /\ outcome.kind = "none"
    /\ LET known == {decision.votes[i].node : i \in 1..Len(decision.votes)}
           r == resolve(decision, known)
       IN /\ outcome' = r
          /\ decision' = IF r.kind = "raised" THEN decision ELSE Resolved(decision, r)
    /\ UNCHANGED now
    /\ UNCHANGED <<cbVars, resVars, nodeVars, hiveVars, swarmVars, serviceVars>>

NextResolve ==
    \/ \E method \in HiveDecisionMethod, k \in 0..MaxParticipants :
          DecisionInitiated(method, k)
    \/ \E o \in HiveOptions, c \in HiveConfidences, t \in 0..MaxStamp :
          VoteLands(o, c, t)
    \/ ResolveDecision

SpecResolve == Init /\ [][NextResolve]_vars

\* ------------------------------------------------ hive resolution properties
Tally(votes, o) == Cardinality({i \in 1..Len(votes) : votes[i].chosen_option = o})
ConfidenceSum(votes, S) == SumOver([i \in 1..Len(votes) |-> votes[i].confidence], S)
AllVotes(votes) == 1..Len(votes)
\* The options holding at least 75 % of the votes.
Carrying(votes) == {o \in HiveOptions : 100 * Tally(votes, o) >= 75 * Len(votes)}
\* outcome's confidence is the mean of the confidences of the votes in S.
MeanIs(r, votes, S) == r.num * Cardinality(S) = r.den * ConfidenceSum(votes, S)
StoredOnDecision ==
    /\ decision.resolved
    /\ decision.consensus_reached = outcome.consensus_reached
    /\ decision.num = outcome.num /\ decision.den = outcome.den

\* What the Consensus rule is said to give on the votes.
ConsensusAsStated(r, votes) ==
    /\ r.consensus_reached <=> (Len(votes) >= 1 /\ Carrying(votes) # {})
    /\ r.consensus_reached
          => /\ Carrying(votes) = {r.chosen_option}
             /\ MeanIs(r, votes,
                       {i \in AllVotes(votes) :
                          votes[i].chosen_option = r.chosen_option})
    /\ ~r.consensus_reached
          => IF Len(votes) = 0 THEN r.num = 0
             ELSE MeanIs(r, votes, AllVotes(votes))

\* C11: a decision resolved with method Consensus has consensus_reached true
\* exactly when at least one vote landed and some option holds at least 0.75 of
\* the votes; then the winner is that option and the confidence is the mean
\* confidence of its votes; otherwise consensus_reached is false and the
\* confidence is the mean confidence over all votes, 0 when there are none.
C11_ConsensusRule ==
    (decision.method = "consensus" /\ outcome.kind = "result")
    => /\ StoredOnDecision
       /\ ConsensusAsStated(outcome, decision.votes)

\* A consensus carried by exactly three votes of four, whose confidence is not
\* the mean over all four.
C11_Witness ==
    /\ decision.method = "consensus" /\ outcome.kind = "result"
    /\ outcome.consensus_reached
    /\ Len(decision.votes) = 4
    /\ Tally(decision.votes, outcome.chosen_option) = 3
    /\ ~MeanIs(outcome, decision.votes, AllVotes(decision.votes))


\* C13: a decision resolved with method Quorum whose votes are fewer than 0.6
\* of its participants has consensus_reached false, confidence 0 and an
\* insufficient-participation reason; any other one has the resolution the
\* Consensus rule gives on the same votes.
C13_QuorumRule ==
    (decision.method = "quorum" /\ outcome.kind = "result")
    => /\ StoredOnDecision
       /\ IF 10 * Len(decision.votes) < 6 * Cardinality(decision.participants)
          THEN /\ ~outcome.consensus_reached
               /\ outcome.num = 0
               /\ outcome.reason = "Insufficient participation"
          ELSE /\ outcome.reason # "Insufficient participation"
               /\ ConsensusAsStated(outcome, decision.votes)

\* Three nodes of two participating agents vote: the quorum holds, and the
\* consensus rule finds no option with 0.75 of the votes.
C13_Witness ==
    /\ decision.method = "quorum" /\ outcome.kind = "result"
    /\ Len(decision.votes) = 3 /\ Cardinality(decision.participants) = 2
    /\ ~outcome.consensus_reached
    /\ outcome.num > 0

\* The time between the first and the last vote: the sum of the gaps between
\* consecutive timestamps in sorted order.
Span(votes) ==
    LET ts == {votes[i].vote_timestamp : i \in 1..Len(votes)}
    IN (CHOOSE t \in ts : \A u \in ts : u <= t)
          - (CHOOSE t \in ts : \A u \in ts : t <= u)

\* C14: a decision resolved with method Emergent, with at least two votes whose
\* mean gap between consecutive sorted timestamps is below 1.0 s, has
\* consensus_reached true, chosen_option "emergent_consensus" and confidence
\* min(1.0, 2.0 - mean_gap); in every other case its resolution is the one
\* the Weighted rule gives on the same votes.
C14_EmergentRule ==
    (decision.method = "emergent" /\ outcome.kind = "result")
    => LET votes == decision.votes
           gaps == Len(votes) - 1
           known == {votes[i].node : i \in 1..Len(votes)}
       IN /\ StoredOnDecision
          /\ IF Len(votes) >= 2 /\ Span(votes) < gaps
             THEN /\ outcome.consensus_reached
                  /\ outcome.chosen_option = "emergent_consensus"
                  /\ IF 2 * gaps - Span(votes) <= gaps
                     THEN outcome.num * gaps = outcome.den * (2 * gaps - Span(votes))
                     ELSE outcome.num = outcome.den
             ELSE outcome = resolve_weighted_voting(votes, known)

\* Three votes spread over one second: a mean gap of half a second.
C14_Witness ==
    /\ decision.method = "emergent" /\ outcome.kind = "result"
    /\ Len(decision.votes) = 3 /\ Span(decision.votes) = 1
    /\ outcome.chosen_option = "emergent_consensus"


\* ------------------------------------------------------- hive: node creation
\* initialize_hive_node(agent_id, capabilities, initial_expertise) at the
\* clock second now.
InitializeHiveNode(agent_id, vec) ==
    /\ nodes' = initialize_hive_node(nodes, agent_id, vec, now)
    /\ UNCHANGED now
    /\ UNCHANGED <<cbVars, resVars, resolveVars, hiveVars, swarmVars, serviceVars>>

\* The clock reaches the next second.
HiveTick ==
    /\ now < MaxHiveTime
    /\ now' = now + 1
    /\ UNCHANGED <<cbVars, resVars, coordVars>>

NextNodes ==
    \/ \E a \in HiveAgents, v \in ExpertiseVectors : InitializeHiveNode(a, v)
    \/ HiveTick

SpecNodes == Init /\ [][NextNodes]_vars

\* C15 as stated: after any sequence of InitializeHiveNode calls, also for the
\* same agent and at any times, m is in connections(n) exactly when n is in
\* connections(m) for all nodes n and m, and a call never replaces an
\* existing node: every call adds one node to the hive.
C15_SymmetricUniqueNodesAsClaimed ==
    /\ [](\A n \in DOMAIN nodes, m \in DOMAIN nodes :
             m \in nodes[n].connections <=> n \in nodes[m].connections)
    /\ [][nodes' # nodes
             => /\ DOMAIN nodes \subseteq DOMAIN nodes'
                /\ \A n \in DOMAIN nodes :
                      /\ nodes'[n].agent_id = nodes[n].agent_id
                      /\ nodes'[n].expertise_vector = nodes[n].expertise_vector
                /\ Cardinality(DOMAIN nodes') = Cardinality(DOMAIN nodes) + 1]_vars


\* --------------------------------------------- hive: the decision processes
\* Bounds of the model: hive nodes and decisions created in one run.
MaxHiveNodes == 2
MaxHiveDecisions == 2

\* The hive whose decisions are followed: two agents of disjoint expertise, and
\* decisions between one option per domain (option["required_expertise"]
\* lists indices into the expertise vector).
ExpertiseOf == [a \in HiveAgents |-> IF a = "agent_a" THEN <<1, 0>> ELSE <<0, 1>>]
DecisionOptions ==
    <<[id |-> "opt_a", required_expertise |-> <<0>>],
      [id |-> "opt_b", required_expertise |-> <<1>>]>>

HiveNodeJoins(agent_id) ==
    /\ Cardinality(DOMAIN nodes) < MaxHiveNodes
    /\ InitializeHiveNode(agent_id, ExpertiseOf[agent_id])

\* decision_id = f"hive_decision_{int(time.time())}"
DecisionId(t) == t

\* initiate_hive_decision: the decision is registered under its id and the
\* task running _process_hive_decision is created.
InitiateDecision(method) ==
    /\ Len(hproc) < MaxHiveDecisions
    /\ decisions' = Append(decisions,
                           NewHiveDecision(DecisionId(now), method,
                                           {nodes[n].agent_id : n \in DOMAIN nodes}))
    /\ active_decisions' =
          [i \in (DOMAIN active_decisions) \cup {DecisionId(now)} |->
              IF i = DecisionId(now) THEN Len(decisions) + 1 ELSE active_decisions[i]]
    /\ hproc' = Append(hproc, [decision_id |-> DecisionId(now), pc |-> "scheduled",
                               ref |-> 0, pending |-> {}])
    /\ UNCHANGED <<now, nodes, decision_history>>
    /\ UNCHANGED <<cbVars, resVars, resolveVars, swarmVars, serviceVars>>

\* _process_hive_decision up to the await: the decision is looked up by id
\* (KeyError when it is gone) and one collector is started per node of a
\* participating agent.
ProcessStart(p) ==
    /\ hproc[p].pc = "scheduled"
    /\ IF hproc[p].decision_id \in DOMAIN active_decisions
       THEN LET ref == active_decisions[hproc[p].decision_id]
            IN hproc' = [hproc EXCEPT
                           ![p].pc = "collecting",
                           ![p].ref = ref,
                           ![p].pending =
                               {n \in DOMAIN nodes :
                                  nodes[n].agent_id \in decisions[ref].participants}]
       ELSE hproc' = [hproc EXCEPT ![p].pc = "failed"]
    /\ UNCHANGED <<now, nodes, active_decisions, decisions, decision_history>>
    /\ UNCHANGED <<cbVars, resVars, resolveVars, swarmVars, serviceVars>>

\* decision.votes[node.node_id] = vote: a new key goes to the end of the dict,
\* an existing key keeps its place.
store_vote(votes, v) ==
    IF \E i \in 1..Len(votes) : votes[i].node = v.node
    THEN [i \in 1..Len(votes) |-> IF votes[i].node = v.node THEN v ELSE votes[i]]
    ELSE Append(votes, v)

\* _calculate_option_expertise_alignment, in tenths: the mean of the expertise
\* in the required dimensions, 0.5 without requirements.
option_expertise_alignment(vec, option) ==
    LET reqs == option.required_expertise
        alignment_score ==
            SumOver([k \in 1..Len(reqs) |-> vec[(reqs[k] % Len(vec)) + 1]],
                    1..Len(reqs))
    IN IF Len(reqs) = 0 THEN 5
       ELSE MinOf({10, (10 * alignment_score) \div Len(reqs)})

\* _calculate_connection_influence, in tenths, as the pair <<sum, count>>: the
\* mean confidence of the connected nodes' votes for the option, 0.5 when the
\* node has no connection or none of them voted for it.
connection_influence(node, votes, option) ==
    LET agreeing == {i \in 1..Len(votes) :
                       /\ votes[i].node \in node.connections
                       /\ votes[i].chosen_option = option.id}
    IN IF node.connections = {} \/ agreeing = {} THEN <<5, 1>>
       ELSE <<SumOver(ConfidenceOf(votes), agreeing), Cardinality(agreeing)>>

\* _generate_node_vote: total_score = (0.7 expertise + 0.3 influence) *
\* node.influence_score per option, kept as a fraction; max() returns the first
\* option of the highest score; confidence = min(1.0, expertise_score + 0.2).
generate_node_vote(n, node, votes, options, t) ==
    LET e == [k \in 1..Len(options) |->
                option_expertise_alignment(node.expertise_vector, options[k])]
        inf == [k \in 1..Len(options) |->
                  connection_influence(node, votes, options[k])]
        num == [k \in 1..Len(options) |->
                  (7 * e[k] * inf[k][2] + 3 * inf[k][1]) * InfluenceScore]
        best == MinOf({k \in 1..Len(options) :
                         \A j \in 1..Len(options) :
                            num[j] * inf[k][2] <= num[k] * inf[j][2]})
    IN Vote(n, options[best].id, MinOf({10, e[best] + 2}), t)

\* _collect_node_vote of node n wakes from its deliberation and stores its vote.
CollectNodeVote(p, n) ==
    /\ hproc[p].pc = "collecting"
    /\ n \in hproc[p].pending
    /\ decisions' =
          [decisions EXCEPT
             ![hproc[p].ref].votes =
                 store_vote(@, generate_node_vote(n, nodes[n], @, DecisionOptions, now))]
    /\ hproc' = [hproc EXCEPT ![p].pending = @ \ {n}]
    /\ UNCHANGED <<now, nodes, active_decisions, decision_history>>
    /\ UNCHANGED <<cbVars, resVars, resolveVars, swarmVars, serviceVars>>

\* _generate_node_vote raises in the collector of node n; gather, called with
\* return_exceptions=True, keeps the exception as that collector's value.
CollectorRaises(p, n) ==
    /\ hproc[p].pc = "collecting"
    /\ n \in hproc[p].pending
    /\ hproc' = [hproc EXCEPT ![p].pending = @ \ {n}]
    /\ UNCHANGED <<now, nodes, active_decisions, decisions, decision_history>>
    /\ UNCHANGED <<cbVars, resVars, resolveVars, swarmVars, serviceVars>>

\* asyncio.wait_for reaches timeout_seconds: the collectors still deliberating
\* are cancelled and TimeoutError is caught.
DecisionTimeout(p) ==
    /\ hproc[p].pc = "collecting"
    /\ hproc[p].pending # {}
    /\ hproc' = [hproc EXCEPT ![p].pending = {}]
    /\ UNCHANGED <<now, nodes, active_decisions, decisions, decision_history>>
    /\ UNCHANGED <<cbVars, resVars, resolveVars, swarmVars, serviceVars>>

\* _resolve_hive_decision: the decision is looked up by id again, the rule of
\* its method runs, and the decision moves from active_decisions to
\* decision_history. A KeyError or an exception of the rule ends the task.
ResolveHiveDecision(p) ==
    /\ hproc[p].pc = "collecting"
    /\ hproc[p].pending = {}
    /\ LET id == hproc[p].decision_id
           ref == active_decisions[id]
           r == resolve(decisions[ref], DOMAIN nodes)
       IN IF id \in DOMAIN active_decisions /\ r.kind = "result"
          THEN /\ decisions' = [decisions EXCEPT ![ref] = Resolved(@, r)]
               /\ decision_history' = Append(decision_history, ref)
               /\ active_decisions' =
                     [i \in (DOMAIN active_decisions) \ {id} |-> active_decisions[i]]
               /\ hproc' = [hproc EXCEPT ![p].pc = "done"]
          ELSE /\ hproc' = [hproc EXCEPT ![p].pc = "failed"]
               /\ UNCHANGED <<active_decisions, decisions, decision_history>>
    /\ UNCHANGED <<now, nodes>>
    /\ UNCHANGED <<cbVars, resVars, resolveVars, swarmVars, serviceVars>>

NextHive ==
    \/ \E a \in HiveAgents : HiveNodeJoins(a)
    \/ HiveTick
    \/ \E method \in HiveDecisionMethod : InitiateDecision(method)
    \/ \E p \in 1..Len(hproc) : ProcessStart(p)
    \/ \E p \in 1..Len(hproc), n \in NodeIds : CollectNodeVote(p, n)
    \/ \E p \in 1..Len(hproc), n \in NodeIds : CollectorRaises(p, n)
    \/ \E p \in 1..Len(hproc) : DecisionTimeout(p)
    \/ \E p \in 1..Len(hproc) : ResolveHiveDecision(p)

SpecHive == Init /\ [][NextHive]_vars

Ended == {"done", "failed"}

\* C12 as stated: every decision registered by InitiateDecision is resolved,
\* whatever its method and however many nodes and votes there are, none
\* included: once its process has ended, the decision is no longer in
\* active_decisions and is in decision_history with resolved_at set.
C12_EveryDecisionResolvedAsClaimed ==
    \A p \in 1..Len(hproc) :
        hproc[p].pc \in Ended
        => /\ decisions[p].resolved
           /\ \E i \in 1..Len(decision_history) : decision_history[i] = p
           /\ \A id \in DOMAIN active_decisions : active_decisions[id] # p


\* ------------------------------------------------------------------------
\* Swarms (core/coordination/swarm_manager.py, core/daemon_bridge.py).
\* A step is the code a call runs between two suspensions of the event loop.
\* The awaited executions (_execute_subtask's, _get_agent_proposal's,
\* _analyze_task_aspect's and _execute_collective_task's awaits) stand for the
\* agents' work: each returns, raises, or is cancelled with the call.
NoSwarmEvent ==
    [op |-> "none", swarm_id |-> "none", other |-> FALSE, returned |-> 0]

Suspended == {"subtask", "proposals", "analyses", "executions"}
\* The calls of coordinate_swarm_task suspended on swarm object s.
InFlight(s) == {c \in 1..Len(coord) : coord[c].swarm = s /\ coord[c].pc \in Suspended}

\* The end of coordinate_swarm_task call c that runs on swarm sw: the pattern
\* returns a dict with the given status built from the values collected,
\* raises, or is cancelled. Gives the swarm and the call record.
finish_call(c, rec, sw, how, status) ==
    LET left == leave_pattern(sw, rec.original, how)
        ended == [rec EXCEPT !.original = "none", !.k = 0, !.worker = "none",
                             !.batch = 0]
        res == IF status = "completed"
               THEN SwarmResult(c, status, rec.approach,
                                IF rec.approach = "hierarchical" THEN queen_of(sw)
                                ELSE "none",
                                rec.used)
               ELSE SwarmResult(c, status, "none", "none", rec.used)
    IN CASE how = "return" ->
               [swarm |-> memory_written(left, rec.task_id, res),
                rec |-> [ended EXCEPT !.pc = "returned", !.result = res]]
         [] how = "raise" ->
               [swarm |-> left,
                rec |-> [ended EXCEPT !.pc = "failed",
                                      !.result = SwarmResult(c, "error", "none",
                                                             "none", 0)]]
         [] OTHER ->
               [swarm |-> left, rec |-> [ended EXCEPT !.pc = "cancelled"]]

\* The coordination pattern p of call c on swarm sw, up to its first
\* suspension, or to the end of the call when it does not suspend.
start_pattern(c, rec0, sw, p) ==
    LET n == Len(sw.order)
        rec == [rec0 EXCEPT !.approach = p]
    IN CASE p = "hierarchical" ->
               IF queen_of(sw) = "none"
               THEN finish_call(c, rec, sw, "return", "error")
               ELSE IF find_best_worker(sw) = "none"
               THEN finish_call(c, rec, sw, "return", "completed")
               ELSE [swarm |-> load_raised(sw, find_best_worker(sw)),
                     rec |-> [rec EXCEPT !.pc = "subtask", !.k = 1,
                                         !.planned = NumSubtasks,
                                         !.worker = find_best_worker(sw)]]
         [] p = "mesh" ->
               IF n = 0
               THEN finish_call(c, rec, sw, "return", "completed")
               ELSE [swarm |-> sw,
                     rec |-> [rec EXCEPT !.pc = "proposals", !.batch = n,
                                         !.planned = n]]
         [] OTHER ->
               IF n = 0
               THEN finish_call(c, rec, sw, "return", "completed")
               ELSE [swarm |-> sw,
                     rec |-> [rec EXCEPT !.pc = "analyses",
                                         !.batch = n * Cardinality(Aspects),
                                         !.planned = n * Cardinality(Aspects) + n]]

\* coordinate_swarm_task(swarm_id, task) up to its first suspension.
enter_coordination(c, sw, s, id, t, complexity, time_critical) ==
    LET queued == [sw EXCEPT !.task_queue = Append(@, TaskId(id, t))]
        rec == [NewCoordination EXCEPT !.swarm = s, !.task_id = TaskId(id, t),
                                       !.entered_as = sw.topology]
    IN IF sw.topology = "adaptive"
       THEN LET opt == optimal_topology(complexity, time_critical, Len(sw.order))
            IN start_pattern(c, [rec EXCEPT !.original = sw.topology],
                             [queued EXCEPT !.topology = opt], opt)
       ELSE start_pattern(c, rec, queued, sw.topology)

\* DaemonBridge.handle_swarm_create: SwarmManager.create_swarm, and the swarm
\* it returns stored in the bridge's table.
\* swarm_topology = topology_map.get(topology, SwarmTopology.ADAPTIVE)
topology_map(topology) ==
    IF topology \in SwarmTopology THEN topology ELSE "adaptive"

handle_swarm_create(id, topology, team) ==
    LET r == create_swarm(swarms, active_swarms, id, topology_map(topology), team,
                          "task_context")
    IN /\ swarms' = r.swarms
       /\ active_swarms' = r.active_swarms
       /\ formed' = IF Len(r.swarms) > Len(swarms)
                    THEN Append(formed, topology_map(topology))
                    ELSE formed
       /\ bridge_swarms' = [i \in (DOMAIN bridge_swarms) \cup {id} |->
                              IF i = id THEN r.returned ELSE bridge_swarms[i]]
       /\ sevent' = [op |-> "create", swarm_id |-> id,
                     other |-> /\ id \in DOMAIN active_swarms
                               /\ swarms[active_swarms[id]].topology
                                     # topology_map(topology),
                     returned |-> r.returned]

HandleSwarmCreate(id, topology, team) ==
    /\ handle_swarm_create(id, topology, team)
    /\ UNCHANGED <<now, coord>>
    /\ UNCHANGED <<cbVars, resVars, resolveVars, nodeVars, hiveVars, serviceVars>>

\* coordinate_swarm_task(swarm_id, task), from the call to its first
\* suspension or to its return.
coordinate_swarm_task(id, complexity, time_critical) ==
    /\ IF id \notin DOMAIN active_swarms
       THEN /\ coord' = Append(coord, NewCoordination)
            /\ swarms' = swarms
       ELSE LET s == active_swarms[id]
                r == enter_coordination(Len(coord) + 1, swarms[s], s, id, now,
                                        complexity, time_critical)
            IN /\ coord' = Append(coord, r.rec)
               /\ swarms' = [swarms EXCEPT ![s] = r.swarm]
    /\ sevent' = NoSwarmEvent
    /\ UNCHANGED <<now, active_swarms, bridge_swarms, formed>>
    /\ UNCHANGED <<cbVars, resVars, resolveVars, nodeVars, hiveVars, serviceVars>>

CoordinateSwarmTask(id, complexity, time_critical) ==
    /\ Len(coord) < MaxCoordinations
    /\ coordinate_swarm_task(id, complexity, time_critical)

\* The await of _execute_subtask in call c ends: by a return, the load is
\* taken back and the loop of _hierarchical_coordination goes on; by an
\* exception, the call leaves through coordinate_swarm_task's except clause.
\* (subtask_ends gives the swarm and the call record after the step.)
subtask_ends(c, how) ==
    LET rec == coord[c]
        s == rec.swarm
        lowered == load_lowered(swarms[s], rec.worker)
    IN IF how = "raise"
       THEN finish_call(c, [rec EXCEPT !.ran = @ + 1, !.failures = @ + 1],
                        swarms[s], "raise", "error")
       ELSE IF rec.k < NumSubtasks
       THEN [swarm |-> load_raised(lowered, find_best_worker(lowered)),
             rec |-> [rec EXCEPT !.k = @ + 1, !.ran = @ + 1,
                                 !.used = @ + 1,
                                 !.worker = find_best_worker(lowered)]]
       ELSE finish_call(c, [rec EXCEPT !.ran = @ + 1, !.used = @ + 1],
                        lowered, "return", "completed")

SubtaskEnds(c, how) ==
    /\ c \in 1..Len(coord)
    /\ coord[c].pc = "subtask"
    /\ how \in {"return", "raise"}
    /\ LET s == coord[c].swarm
           r == subtask_ends(c, how)
       IN /\ swarms' = [swarms EXCEPT ![s] = r.swarm]
          /\ coord' = [coord EXCEPT ![c] = r.rec]
    /\ sevent' = NoSwarmEvent
    /\ UNCHANGED <<now, active_swarms, bridge_swarms, formed>>
    /\ UNCHANGED <<cbVars, resVars, resolveVars, nodeVars, hiveVars, serviceVars>>

\* asyncio.gather(..., return_exceptions=True) of call c joins: all tasks of
\* the batch have ended, failed of them by an exception.
\* (gather_joins gives the swarm and the call record after the step.)
gather_joins(c, failed) ==
    LET rec == [coord[c] EXCEPT !.ran = @ + coord[c].batch,
                                !.used = @ + coord[c].batch - failed,
                                !.failures = @ + failed]
        s == rec.swarm
    IN CASE rec.pc = "proposals" ->
               finish_call(c, rec, swarms[s], "return", "completed")
         [] rec.pc = "analyses" ->
               [swarm |-> swarms[s],
                rec |-> [rec EXCEPT !.pc = "executions",
                                    !.batch = Len(swarms[s].order)]]
         [] OTHER ->
               finish_call(c, rec, swarms[s], "return", "completed")

GatherJoins(c, failed) ==
    /\ c \in 1..Len(coord)
    /\ coord[c].pc \in {"proposals", "analyses", "executions"}
    /\ failed <= coord[c].batch
    /\ LET s == coord[c].swarm
           r == gather_joins(c, failed)
       IN /\ swarms' = [swarms EXCEPT ![s] = r.swarm]
          /\ coord' = [coord EXCEPT ![c] = r.rec]
    /\ sevent' = NoSwarmEvent
    /\ UNCHANGED <<now, active_swarms, bridge_swarms, formed>>
    /\ UNCHANGED <<cbVars, resVars, resolveVars, nodeVars, hiveVars, serviceVars>>

\* The task running call c is cancelled while the call is suspended:
\* CancelledError passes the finally block of _adaptive_coordination and is
\* not caught by coordinate_swarm_task's except Exception.
CancelCoordination(c) ==
    /\ c \in 1..Len(coord)
    /\ coord[c].pc \in Suspended
    /\ LET s == coord[c].swarm
           r == finish_call(c, coord[c], swarms[s], "cancel", "none")
       IN /\ swarms' = [swarms EXCEPT ![s] = r.swarm]
          /\ coord' = [coord EXCEPT ![c] = r.rec]
    /\ sevent' = NoSwarmEvent
    /\ UNCHANGED <<now, active_swarms, bridge_swarms, formed>>
    /\ UNCHANGED <<cbVars, resVars, resolveVars, nodeVars, hiveVars, serviceVars>>

\* time.time() moves on to the next second.
SwarmTick ==
    /\ now < MaxSwarmTime
    /\ now' = now + 1
    /\ sevent' = NoSwarmEvent
    /\ UNCHANGED <<swarms, active_swarms, bridge_swarms, formed, coord>>
    /\ UNCHANGED <<cbVars, resVars, resolveVars, nodeVars, hiveVars, serviceVars>>

NextSwarm ==
    \/ \E id \in SwarmIds, tp \in SwarmTopology, team \in SwarmTeams :
          HandleSwarmCreate(id, tp, team)
    \/ \E id \in SwarmIds, cx \in Complexities, tc \in BOOLEAN :
          CoordinateSwarmTask(id, cx, tc)
    \/ \E c \in 1..MaxCoordinations, how \in {"return", "raise"} : SubtaskEnds(c, how)
    \/ \E c \in 1..MaxCoordinations, f \in GatherFailures : GatherJoins(c, f)
    \/ \E c \in 1..MaxCoordinations : CancelCoordination(c)
    \/ SwarmTick

SpecSwarm == Init /\ [][NextSwarm]_vars


\* C16: a coordinate_swarm_task call that found the swarm's topology adaptive
\* leaves the topology adaptive again when it ends, by a return, by a failure
\* or by cancellation; and whenever no call is in flight on a swarm, the
\* swarm's topology is the one it was created with.
C16_AdaptiveTopologyRestored ==
    /\ [](\A s \in 1..Len(swarms) :
            InFlight(s) = {} => swarms[s].topology = formed[s])
    /\ [][\A c \in 1..Len(coord') :
            (/\ coord'[c].entered_as = "adaptive"
             /\ coord'[c].pc \notin Suspended
             /\ c > Len(coord) \/ coord[c].pc \in Suspended)
            => swarms'[coord'[c].swarm].topology = "adaptive"]_vars

\* An adaptive swarm on which one call was cancelled while the topology was
\* swapped and another went through its gathers and returned.
C16_Witness ==
    \E c, d \in 1..Len(coord) :
        /\ coord[c].entered_as = "adaptive" /\ coord[c].pc = "cancelled"
        /\ coord[d].entered_as = "adaptive" /\ coord[d].pc = "returned"
        /\ coord[d].ran > 0
        /\ coord[c].swarm = coord[d].swarm
        /\ swarms[coord[c].swarm].topology = "adaptive"

C18_FailureDoesNotAbortOthersAsClaimed ==
    \A c \in 1..Len(coord) :
        (coord[c].pc \in {"returned", "failed"} /\ coord[c].failures > 0)
        => /\ coord[c].ran = coord[c].planned
           /\ coord[c].result.used = coord[c].ran - coord[c].failures

\* The calls of coordinate_swarm_task made on swarm object s, and those of
\* them that returned a result of their pattern.
CallsOn(s) == {c \in 1..Len(coord) : coord[c].swarm = s}
ReturnedOn(s) == {c \in CallsOn(s) : coord[c].pc = "returned"}

\* C19: a worker's load is raised at the dispatch of a subtask and lowered
\* again when the subtask ends in any way, so once no coordination is in
\* flight on a swarm every agent's current_load is back to 0, the value it had
\* before the first coordination.
C19_LoadsRestoredAsClaimed ==
    \A s \in 1..Len(swarms) :
        InFlight(s) = {}
        => \A a \in DOMAIN swarms[s].active_agents :
              swarms[s].active_agents[a].current_load = 0

\* C20: every call on an existing swarm appends one task to task_queue; a
\* call that completed has its result in collective_memory under its task id,
\* and the entries of earlier tasks are kept, so n completed calls leave n
\* task entries; a call on an unknown id changes no swarm.
C20_OneEntryPerCompletedCallAsClaimed ==
    /\ \A s \in 1..Len(swarms) :
          /\ Len(swarms[s].task_queue) = Cardinality(CallsOn(s))
          /\ Cardinality(DOMAIN swarms[s].collective_memory)
                = Cardinality(ReturnedOn(s))
          /\ \A c \in ReturnedOn(s) :
                /\ coord[c].task_id \in DOMAIN swarms[s].collective_memory
                /\ swarms[s].collective_memory[coord[c].task_id].by = c
    /\ \A c \in 1..Len(coord) : coord[c].pc = "rejected" => coord[c].swarm = 0


\* ---------------------------------------------------------- queen selection
\* The swarm calls on teams with and without an agent of priority 90 or
\* more, and with agents of equal numbers of capabilities in both orders.
QueenTeams ==
    {<<"ios_developer", "backend_architect">>,
     <<"context_manager", "ios_developer">>,
     <<"ios_developer", "ai_engineer", "project_supervisor_orchestrator">>}

NextQueen ==
    \/ \E id \in SwarmIds, tp \in SwarmTopology, team \in QueenTeams :
          HandleSwarmCreate(id, tp, team)
    \/ \E id \in SwarmIds, cx \in Complexities, tc \in BOOLEAN :
          CoordinateSwarmTask(id, cx, tc)
    \/ \E c \in 1..MaxCoordinations, how \in {"return", "raise"} : SubtaskEnds(c, how)
    \/ \E c \in 1..MaxCoordinations, f \in GatherFailures : GatherJoins(c, f)
    \/ \E c \in 1..MaxCoordinations : CancelCoordination(c)
    \/ SwarmTick

SpecQueen == Init /\ [][NextQueen]_vars

\* The agent ids in the order of Python's str comparison.
AgentIdsSorted ==
    <<"ai_engineer", "backend_architect", "context_manager",
      "forestry_business_analyst", "ios_developer",
      "project_supervisor_orchestrator", "research_orchestrator",
      "tree_analysis_specialist">>
LexRank(a) == CHOOSE i \in 1..Len(AgentIdsSorted) : AgentIdsSorted[i] = a

\* The agents of a swarm with the most capabilities.
MostCapable(sw) ==
    {a \in DOMAIN sw.active_agents :
        \A b \in DOMAIN sw.active_agents :
            sw.active_agents[b].capabilities <= sw.active_agents[a].capabilities}

\* C21: a hierarchical coordination that returned on a swarm with agents has
\* a result with status completed, approach hierarchical, and as queen_agent
\* an agent with role queen when the swarm has one, otherwise the agent with
\* the most capabilities whose agent_id is the smallest.
C21_QueenAsClaimed ==
    \A c \in 1..Len(coord) :
        (/\ coord[c].pc = "returned"
         /\ coord[c].approach = "hierarchical"
         /\ Len(swarms[coord[c].swarm].order) > 0)
        => LET sw == swarms[coord[c].swarm]
               res == coord[c].result
           IN /\ res.status = "completed"
              /\ res.approach = "hierarchical"
              /\ IF Len(WithRole(sw, {"queen"})) > 0
                 THEN sw.active_agents[res.queen_agent].role = "queen"
                 ELSE /\ res.queen_agent \in MostCapable(sw)
                      /\ \A a \in MostCapable(sw) :
                            LexRank(res.queen_agent) <= LexRank(a)


\* ------------------------------------------------------------------------
\* Hive memory (core/coordination/hive_intelligence.py, core/daemon_bridge.py).
\* None of store_collective_memory, recall_collective_memory and
\* decay_memory_relevance suspends: each call is one step. The calls name no
\* contributors, as the bridge's default has it.
\* Bounds of the model: the texts NoteContent(1..MaxNotes), the access_count
\* up to which fragments are recalled, and the hours the clock runs over.
MaxNotes == 11
MaxAccess == 1
MaxDecayTicks == 3

\* DaemonBridge.handle_hive_remember: store_collective_memory.
HandleHiveRemember(content, memory_type, confidence) ==
    /\ memory_store' = store_collective_memory(memory_store, memory_type, content,
                                               confidence, now)
    /\ mevent' = [op |-> "remember", query |-> content, memory_type |-> memory_type,
                  confidence |-> confidence, returned |-> <<>>]
    /\ UNCHANGED now
    /\ UNCHANGED notMemVars

\* DaemonBridge.handle_hive_recall: recall_collective_memory.
HandleHiveRecall(query, memory_type, min_confidence) ==
    /\ \A i \in 1..Len(memory_store) : memory_store[i].access_count < MaxAccess
    /\ LET r == recall_collective_memory(memory_store, query, memory_type,
                                         min_confidence, now)
       IN /\ memory_store' = r.memory_store
          /\ mevent' = [op |-> "recall", query |-> query, memory_type |-> memory_type,
                        confidence |-> min_confidence, returned |-> r.returned]
    /\ UNCHANGED now
    /\ UNCHANGED notMemVars

\* decay_memory_relevance, as the background task calls it. The event lists
\* the positions of the fragments it deleted.
DecayMemory ==
    /\ memory_store' = decay_memory_relevance(memory_store, now)
    /\ mevent' = [NoMemoryEvent EXCEPT
                    !.op = "decay",
                    !.returned =
                        SelectSeq([i \in 1..Len(memory_store) |-> i],
                                  LAMBDA i : \A j \in 1..Len(memory_store') :
                                     memory_store'[j].fragment_id
                                        # memory_store[i].fragment_id)]
    /\ UNCHANGED now
    /\ UNCHANGED notMemVars

\* time.time() moves on by hours whole hours, up to limit hours.
MemoryTick(hours, limit) ==
    /\ now + hours * SecondsPerHour <= limit * SecondsPerHour
    /\ now' = now + hours * SecondsPerHour
    /\ mevent' = NoMemoryEvent
    /\ UNCHANGED memory_store
    /\ UNCHANGED notMemVars

\* The notes the store holds.
NotesHeld ==
    {i \in 1..Len(memory_store) : memory_store[i].content # ExampleContent}
LongQuery ==
    <<"AI", "development", "needs", "before", "every", "release", "to", "real",
      "users">>

\* The recall calls: the query, the memory type and min_confidence.
RecallCalls ==
    {<<ExampleContent, "none", 5>>, <<ExampleContent, "episodic", 5>>,
     <<ExampleContent, "semantic", 9>>, <<LongQuery, "none", 5>>,
     <<<<"unrelated", "topic">>, "none", 5>>}

\* Remember and recall: the notes are remembered one after the other, the
\* example text at any moment.
NextRecall ==
    \/ /\ Cardinality(NotesHeld) < MaxNotes
       /\ HandleHiveRemember(NoteContent(Cardinality(NotesHeld) + 1), "semantic", 9)
    \/ \E cf \in {4, 8} : HandleHiveRemember(ExampleContent, "episodic", cf)
    \/ \E call \in RecallCalls : HandleHiveRecall(call[1], call[2], call[3])

SpecRecall == Init /\ [][NextRecall]_vars


\* The fragments the last recall returned, and the Jaccard similarity of at
\* least 0.3 between the words of a query and of a content.
Returned == {mevent.returned[k] : k \in 1..Len(mevent.returned)}
Similar(query, content) ==
    /\ tokens(query) # {} /\ tokens(content) # {}
    /\ 10 * Cardinality(tokens(query) \cap tokens(content))
          >= 3 * Cardinality(tokens(query) \cup tokens(content))

\* C22: every fragment a recall returns has a confidence_score of at least
\* min_confidence, the requested type when one is given, and a Jaccard
\* similarity of at least 0.3 between the words of the query and of its
\* content; a recall returns at most 10 fragments.
C22_ReturnedPassFilters ==
    mevent.op = "recall" =>
        /\ Len(mevent.returned) <= 10
        /\ \A i \in Returned :
              /\ i \in 1..Len(memory_store)
              /\ memory_store[i].confidence_score >= mevent.confidence
              /\ mevent.memory_type # "none"
                    => memory_store[i].memory_type = mevent.memory_type
              /\ Similar(mevent.query, memory_store[i].content)

\* A recall that returned 10 of more than 10 fragments that pass, while the
\* store holds a fragment of lower confidence than asked for.
C22_Witness ==
    /\ mevent.op = "recall"
    /\ Len(mevent.returned) = 10
    /\ Cardinality({i \in 1..Len(memory_store) :
                      passes(memory_store[i], mevent.query, mevent.memory_type,
                             mevent.confidence)}) > 10
    /\ \E i \in 1..Len(memory_store) :
          memory_store[i].confidence_score < mevent.confidence

\* C23: a recall raises access_count by one and sets last_accessed on exactly
\* the fragments it returns, leaves both as they were on every other
\* fragment, and neither adds nor removes a fragment.
C23_OnlyReturnedTouchedAsClaimed ==
    [][mevent'.op = "recall" =>
          /\ Len(memory_store') = Len(memory_store)
          /\ \A i \in 1..Len(memory_store) :
                /\ memory_store'[i].fragment_id = memory_store[i].fragment_id
                /\ IF \E k \in 1..Len(mevent'.returned) : mevent'.returned[k] = i
                   THEN /\ memory_store'[i].access_count
                              = memory_store[i].access_count + 1
                        /\ memory_store'[i].last_accessed = now
                   ELSE /\ memory_store'[i].access_count
                              = memory_store[i].access_count
                        /\ memory_store'[i].last_accessed
                              = memory_store[i].last_accessed]_vars

\* C24: a recall whose query is the words of a remembered content, with a
\* min_confidence not above the confidence it was remembered with and with
\* its type or none, returns a fragment with that content, whatever else the
\* store holds.
C24_RememberedIsRecalledAsClaimed ==
    (/\ mevent.op = "recall"
     /\ \E i \in 1..Len(memory_store) :
           /\ memory_store[i].content = mevent.query
           /\ memory_store[i].confidence_score >= mevent.confidence
           /\ mevent.memory_type \in {"none", memory_store[i].memory_type})
    => \E i \in Returned : memory_store[i].content = mevent.query

\* The fragments the claimed recall may return: of the type asked for, of
\* confidence min_confidence or more, of relevance 0.3 or more.
Eligible ==
    {i \in 1..Len(memory_store) :
        /\ mevent.memory_type \in {"none", memory_store[i].memory_type}
        /\ memory_store[i].confidence_score >= mevent.confidence
        /\ Similar(mevent.query, memory_store[i].content)}

\* C25: a recall returns the 10 fragments of the highest
\* confidence_score * relevance_decay, in descending order, among the stored
\* fragments of the type asked for, of confidence min_confidence or more and
\* of relevance 0.3 or more; a relevance of exactly 0.3 is enough.
C25_TopOfEligibleAsClaimed ==
    mevent.op = "recall" =>
        /\ Returned \subseteq Eligible
        /\ Len(mevent.returned) =
              (IF Cardinality(Eligible) < 10 THEN Cardinality(Eligible) ELSE 10)
        /\ \A i \in Returned, j \in Eligible \ Returned :
              Score(memory_store[i]) >= Score(memory_store[j])
        /\ \A k \in 1..Len(mevent.returned) - 1 :
              Score(memory_store[mevent.returned[k]])
                 >= Score(memory_store[mevent.returned[k + 1]])


\* Decay: two texts are remembered, recalled together or one alone, and
\* decayed, while the clock moves on by DecayTickHours at a time.
DecayTickHours == 15
DecayRecallCalls == {<<ExampleContent, "none", 5>>, <<ExampleContent, "none", 9>>}

NextDecay ==
    \/ HandleHiveRemember(ExampleContent, "semantic", 8)
    \/ HandleHiveRemember(NoteContent(1), "semantic", 9)
    \/ \E call \in DecayRecallCalls : HandleHiveRecall(call[1], call[2], call[3])
    \/ DecayMemory
    \/ MemoryTick(DecayTickHours, MaxDecayTicks * DecayTickHours)

SpecDecay == Init /\ [][NextDecay]_vars

\* relevance_decay >= 0.1 for a fragment decayed over the given hours.
AtLeastTenth(hours) == hours * LnDecayRate <= LnDropThreshold
\* The hours a decay run at the current time decays a fragment over.
HoursSinceAccess(f) == (now - f.last_accessed) \div SecondsPerHour

\* The parts of C26 on the decay run and on the store between the runs: after
\* a run of decay_memory_relevance no fragment with relevance_decay below 0.1
\* is in the store, every fragment whose decayed relevance is 0.1 or more is
\* still there with that relevance, and at all times every fragment of the
\* store has a relevance_decay of 0.1 or more.
DecayDropsExactlyBelowTenth ==
    /\ [](\A i \in 1..Len(memory_store) : AtLeastTenth(memory_store[i].decay_hours))
    /\ [][mevent'.op = "decay" =>
            \A i \in 1..Len(memory_store) :
               LET hours == memory_store[i].decay_hours
                               + HoursSinceAccess(memory_store[i])
               IN AtLeastTenth(hours) <=>
                     \E j \in 1..Len(memory_store') :
                        memory_store'[j] = [memory_store[i] EXCEPT !.decay_hours = hours]]_vars

\* C26: decay_memory_relevance removes exactly the fragments whose
\* relevance_decay fell below 0.1, every fragment of the store has a
\* relevance_decay of 0.1 or more at all times, and the relevance_decay of a
\* stored fragment never increases (its hours of decay never decrease), unless
\* the step remembers the same content and type again, which puts a new
\* fragment in its place.
C26_DecayOnlyLowers ==
    /\ DecayDropsExactlyBelowTenth
    /\ [][\A i \in 1..Len(memory_store), j \in 1..Len(memory_store') :
            memory_store'[j].fragment_id = memory_store[i].fragment_id
            => \/ memory_store'[j].decay_hours >= memory_store[i].decay_hours
               \/ /\ mevent'.op = "remember"
                  /\ memory_store[i].fragment_id
                        = <<mevent'.memory_type, mevent'.query>>]_vars

\* A decay run that deleted one fragment and kept another that had decayed
\* before.
C26_Witness ==
    /\ mevent.op = "decay"
    /\ Len(mevent.returned) = 1
    /\ \E i \in 1..Len(memory_store) : memory_store[i].decay_hours >= DecayTickHours

\* C26 as stated: the same, with a relevance_decay that never increases
\* under any step.
C26_NeverIncreasesAsClaimed ==
    /\ DecayDropsExactlyBelowTenth
    /\ [][\A i \in 1..Len(memory_store), j \in 1..Len(memory_store') :
            memory_store'[j].fragment_id = memory_store[i].fragment_id
            => memory_store'[j].decay_hours >= memory_store[i].decay_hours]_vars


\* ------------------------------------------------------------------------
\* Agent manager (core/agents/agent_manager.py). None of its calls suspends:
\* validate_resource_requirements and update_agent_status are awaited but do
\* not wait. validate_resource_requirements stands for the resource check; it
\* accepts or rejects.
ActivateAgent(agent_id, resources_ok) ==
    /\ LET r == activate_agent(agent_registry, active_agents, agent_id, resources_ok)
       IN /\ active_agents' = r.active_agents
          /\ aevent' = [NoAgentEvent EXCEPT !.op = "activate", !.agent_id = agent_id,
                                            !.returned = <<r.returned, resources_ok>>,
                                            !.before = active_agents]
    /\ UNCHANGED <<now, agent_registry>>
    /\ UNCHANGED notAgentVars

DeactivateAgent(agent_id) ==
    /\ active_agents' = deactivate_agent(active_agents, agent_id)
    /\ aevent' = [NoAgentEvent EXCEPT !.op = "deactivate", !.agent_id = agent_id,
                                    !.before = active_agents]
    /\ UNCHANGED <<now, agent_registry>>
    /\ UNCHANGED notAgentVars

Shutdown ==
    /\ active_agents' = shutdown(active_agents, active_agents)
    /\ aevent' = [NoAgentEvent EXCEPT !.op = "shutdown", !.before = active_agents]
    /\ UNCHANGED <<now, agent_registry>>
    /\ UNCHANGED notAgentVars

FindAgentsByCapabilities(required) ==
    /\ aevent' = [NoAgentEvent EXCEPT
                    !.op = "find", !.required = required,
                    !.returned = find_agents_by_capabilities(agent_registry, required)]
    /\ UNCHANGED <<now, agent_registry, active_agents>>
    /\ UNCHANGED notAgentVars

NextAgents ==
    \/ \E a \in AgentIds, ok \in BOOLEAN : ActivateAgent(a, ok)
    \/ \E a \in AgentIds : DeactivateAgent(a)
    \/ Shutdown
    \/ \E required \in RequiredCapabilities : FindAgentsByCapabilities(required)

SpecAgents == Init /\ [][NextAgents]_vars

\* The keys of agent_registry.
Registered == {agent_registry[i] : i \in 1..Len(agent_registry)}

\* C27: activate_agent of a registered agent the resource check accepts (or
\* that is active already) returns the agent's registered configuration with
\* the agent active, and changes nothing if it was active; activate_agent of
\* an unregistered agent, or of an inactive one the resource check rejects,
\* returns None and leaves the active agents as they were. The active agents
\* are registered agents at all times.
C27_ActivateOrError ==
    /\ [](active_agents \subseteq Registered)
    /\ [][aevent'.op = "activate" =>
            LET a == aevent'.agent_id
                accepted == aevent'.returned[2]
            IN IF a \in Registered /\ (accepted \/ a \in active_agents)
               THEN /\ aevent'.returned[1] = a
                    /\ a \in active_agents'
                    /\ active_agents' = active_agents \cup {a}
               ELSE /\ aevent'.returned[1] = "None"
                    /\ active_agents' = active_agents]_vars

\* A registered agent was activated next to two active ones.
C27_Witness ==
    /\ aevent.op = "activate"
    /\ aevent.returned[1] = aevent.agent_id
    /\ aevent.agent_id \notin aevent.before
    /\ Cardinality(aevent.before) >= 2

\* C28: deactivate_agent(a) leaves a inactive and every other agent as it
\* was, and changes nothing for an inactive or unknown id; shutdown leaves no
\* agent active; neither changes the registry.
C28_DeactivateRemovesOnlyThat ==
    [][/\ aevent'.op = "deactivate" =>
            /\ active_agents' = active_agents \ {aevent'.agent_id}
            /\ agent_registry' = agent_registry
       /\ aevent'.op = "shutdown" =>
            /\ active_agents' = {}
            /\ agent_registry' = agent_registry]_vars

\* One of three active agents was deactivated.
C28_Witness ==
    /\ aevent.op = "deactivate"
    /\ aevent.agent_id \in aevent.before
    /\ Cardinality(aevent.before) >= 3

\* C29: find_agents_by_capabilities returns exactly the registered agents
\* with a specialization domain among the required ones, each once, in
\* descending order of coordination_priority and, for equal priorities, in
\* ascending order of agent_id; it changes neither the registry nor the
\* active agents.
C29_FindOrderedAsClaimed ==
    [][aevent'.op = "find" =>
          LET found == aevent'.returned
          IN /\ {found[k] : k \in 1..Len(found)} =
                   {a \in Registered :
                       AgentRegistry[a].domains \cap aevent'.required # {}}
             /\ \A k, l \in 1..Len(found) : k # l => found[k] # found[l]
             /\ \A k \in 1..Len(found) - 1 :
                   \/ AgentRegistry[found[k]].coordination_priority
                         > AgentRegistry[found[k + 1]].coordination_priority
                   \/ /\ AgentRegistry[found[k]].coordination_priority
                            = AgentRegistry[found[k + 1]].coordination_priority
                      /\ LexRank(found[k]) < LexRank(found[k + 1])
             /\ agent_registry' = agent_registry
             /\ active_agents' = active_agents]_vars


\* ------------------------------------------------------------------------
\* Swarm-hive coordinator (core/coordination/swarm_hive_coordinator.py).
\* coordinate_task runs in two steps: from the call to the coordination it
\* awaits, and from the end of that coordination to the return. What the
\* coordination does in the swarm manager and in the hive is not followed
\* here: it ends with a result of some efficiency_score or with an exception.
\* Bound of the model: the coordinate_task calls of one run.
MaxTasks == 3

\* coordinate_task(task) up to the coordination it awaits: the calls, and
\* active_coordinations, after it.
coordinate_task(task) ==
    [ctasks |-> Append(ctasks, [task_id |-> task.task_id,
                                mode |-> mode_of(performance_metrics, task),
                                pc |-> "coordinating"]),
     active_coordinations |->
         [k \in (DOMAIN active_coordinations) \cup {task.task_id} |->
             IF k = task.task_id THEN Len(ctasks) + 1 ELSE active_coordinations[k]]]

CoordinateTask(task) ==
    /\ Len(ctasks) < MaxTasks
    /\ ctasks' = coordinate_task(task).ctasks
    /\ cevent' = [op |-> "coordinate", task |-> task,
                  mode |-> mode_of(performance_metrics, task)]
    /\ active_coordinations' = coordinate_task(task).active_coordinations
    /\ UNCHANGED <<now, performance_metrics, coordination_history>>
    /\ UNCHANGED notCoordinatorVars

\* The task's entry of active_coordinations deleted, as the finally block of
\* coordinate_task does.
cleaned_up(active, task_id) ==
    [k \in (DOMAIN active) \ {task_id} |-> active[k]]

\* The coordination of call c returns a result with the given
\* efficiency_score: the call is entered in the history, the metrics are
\* updated, and the call returns.
coordination_returns(calls, active, c, efficiency_score) ==
    [ctasks |-> [calls EXCEPT ![c].pc = "returned"],
     coordination_history |-> Append(coordination_history, c),
     performance_metrics |->
         update_performance_metrics(performance_metrics, calls[c].mode,
                                    efficiency_score),
     active_coordinations |-> cleaned_up(active, calls[c].task_id)]

CoordinationReturns(c, efficiency_score) ==
    /\ c \in 1..Len(ctasks)
    /\ ctasks[c].pc = "coordinating"
    /\ LET v == coordination_returns(ctasks, active_coordinations, c,
                                     efficiency_score)
       IN /\ ctasks' = v.ctasks
          /\ coordination_history' = v.coordination_history
          /\ performance_metrics' = v.performance_metrics
          /\ active_coordinations' = v.active_coordinations
    /\ cevent' = NoCoordinationEvent
    /\ UNCHANGED now
    /\ UNCHANGED notCoordinatorVars

\* The coordination of call c raises: coordinate_task returns an error.
CoordinationFails(c) ==
    /\ c \in 1..Len(ctasks)
    /\ ctasks[c].pc = "coordinating"
    /\ ctasks' = [ctasks EXCEPT ![c].pc = "failed"]
    /\ active_coordinations' = cleaned_up(active_coordinations, ctasks[c].task_id)
    /\ cevent' = NoCoordinationEvent
    /\ UNCHANGED <<now, performance_metrics, coordination_history>>
    /\ UNCHANGED notCoordinatorVars

NextCoordinator ==
    \/ \E task \in CoordinationTasks : CoordinateTask(task)
    \/ \E c \in 1..MaxTasks, e \in EfficiencyScores : CoordinationReturns(c, e)
    \/ \E c \in 1..MaxTasks : CoordinationFails(c)

SpecCoordinator == Init /\ [][NextCoordinator]_vars

\* The exponential moving average of the efficiency scores of the
\* coordinations run in a mode, 0.5 before the first.
EmaEfficiency(mode) == metric(performance_metrics, efficiency_key(mode))

C31_SelectionLearnsAsClaimed ==
    (/\ cevent.op = "coordinate"
     /\ cevent.task.coordination_mode = "adaptive"
     /\ cevent.task.complexity < 3
     /\ ~cevent.task.time_critical
     /\ cevent.task.capabilities <= 8)
    => /\ DOMAIN performance_metrics = {} => cevent.mode = "swarm_only"
       /\ (/\ efficiency_key("swarm_only") \in DOMAIN performance_metrics
           /\ efficiency_key("hive_only") \in DOMAIN performance_metrics
           /\ EmaEfficiency("hive_only") > EmaEfficiency("swarm_only"))
          => cevent.mode = "hive_only"

\* ---------------------------------------------- swarm-only coordinations
\* Bounds of the model: the _coordinate_swarm_only calls of one run.
MaxRuns == 2
\* The coordinated tasks (task_id, complexity, time_critical and
\* len(required_capabilities)) with their preferred_agents: one for each
\* topology _coordinate_swarm_only chooses; the list of task "b" is longer
\* than the limit of a swarm.
RunTasks ==
    {<<"a", 5, TRUE, 5, <<"project_supervisor_orchestrator", "reviewer",
                          "backend_architect">> >>,
     <<"a", 5, FALSE, 8, <<"project_supervisor_orchestrator", "reviewer",
                           "backend_architect">> >>,
     <<"a", 5, FALSE, 5, <<"backend_architect">> >>,
     <<"b", 9, FALSE, 5, <<"reviewer">> \o RegistryOrder>>}

\* The swarm manager's tables and the calls as the steps below leave them.
SwarmTables(objs, active, calls, made, history, memory, rs, ended) ==
    [swarms |-> objs, active_swarms |-> active, coord |-> calls,
     formed |-> made, swarm_history |-> history, global_memory |-> memory,
     runs |-> rs, ended |-> ended]

\* The end of _coordinate_swarm_only call r once coordinate_swarm_task has
\* returned: dissolve_swarm(swarm_id), and return.
run_returns(r, rec, objs, active, calls, made) ==
    LET d == dissolve_swarm(objs, active, swarm_history, global_memory,
                            rec.swarm_id)
    IN SwarmTables(objs, d.active_swarms, calls, made, d.swarm_history,
                   d.global_memory,
                   [i \in 1..(IF r > Len(runs) THEN r ELSE Len(runs)) |->
                       IF i = r THEN [rec EXCEPT !.pc = "returned",
                                                 !.dissolved = d.returned]
                       ELSE runs[i]],
                   TRUE)

\* _coordinate_swarm_only(task, preferred_agents) from the call to the first
\* suspension of its coordinate_swarm_task, or to its return when
\* coordinate_swarm_task does not suspend.
coordinate_swarm_only(task_id, complexity, time_critical, capabilities, preferred_agents) ==
    LET id == SwarmOnlyId(task_id)
        topology == swarm_only_topology(complexity, time_critical, capabilities)
        made == create_swarm(swarms, active_swarms, id, topology,
                             limited(preferred_agents), "task")
        s == made.returned
        c == Len(coord) + 1
        e == enter_coordination(c, made.swarms[s], s, id, now, complexity,
                                time_critical)
        objs == [made.swarms EXCEPT ![s] = e.swarm]
        rec == NewRun(task_id, s, Len(made.swarms) > Len(swarms), c)
        topologies == IF rec.fresh THEN Append(formed, topology) ELSE formed
    IN IF e.rec.pc \in Suspended
       THEN SwarmTables(objs, made.active_swarms, Append(coord, e.rec),
                        topologies, swarm_history, global_memory,
                        Append(runs, rec), FALSE)
       ELSE run_returns(Len(runs) + 1, rec, objs, made.active_swarms,
                        Append(coord, e.rec), topologies)

\* The await call r is suspended on ends (a subtask by a return or an
\* exception, a gather with failed of its tasks ended by an exception), and
\* the call runs on to its next suspension or to its return.
swarm_only_resumes(r, how, failed) ==
    LET c == runs[r].call
        s == coord[c].swarm
        e == IF coord[c].pc = "subtask" THEN subtask_ends(c, how)
             ELSE gather_joins(c, failed)
        objs == [swarms EXCEPT ![s] = e.swarm]
        calls == [coord EXCEPT ![c] = e.rec]
    IN IF e.rec.pc \in Suspended
       THEN SwarmTables(objs, active_swarms, calls, formed, swarm_history,
                        global_memory, runs, FALSE)
       ELSE run_returns(r, runs[r], objs, active_swarms, calls, formed)

\* The awaited work of a suspended call ends in one of these ways.
Resumptions(call, how, failed) ==
    IF call.pc = "subtask" THEN how \in {"return", "raise"} /\ failed = 0
    ELSE how = "return" /\ failed <= call.batch

\* The tables take the values v.
SwarmTablesBecome(v) ==
    /\ swarms' = v.swarms
    /\ active_swarms' = v.active_swarms
    /\ coord' = v.coord
    /\ formed' = v.formed
    /\ swarm_history' = v.swarm_history
    /\ global_memory' = v.global_memory
    /\ runs' = v.runs

CoordinateSwarmOnly(task_id, complexity, time_critical, capabilities, preferred_agents) ==
    /\ Len(runs) < MaxRuns
    /\ SwarmTablesBecome(coordinate_swarm_only(task_id, complexity,
                                               time_critical, capabilities,
                                               preferred_agents))
    /\ sevent' = [op |-> "swarm_only", swarm_id |-> SwarmOnlyId(task_id),
                  other |-> FALSE, returned |-> 0]
    /\ UNCHANGED <<now, bridge_swarms>>
    /\ UNCHANGED <<cbVars, resVars, resolveVars, nodeVars, hiveVars, memVars,
                   agentVars, coordinatorVars, bridgeVars>>

SwarmOnlyResumes(r, how, failed) ==
    /\ r \in 1..Len(runs)
    /\ runs[r].pc = "coordinating"
    /\ Resumptions(coord[runs[r].call], how, failed)
    /\ SwarmTablesBecome(swarm_only_resumes(r, how, failed))
    /\ sevent' = NoSwarmEvent
    /\ UNCHANGED <<now, bridge_swarms>>
    /\ UNCHANGED <<cbVars, resVars, resolveVars, nodeVars, hiveVars, memVars,
                   agentVars, coordinatorVars, bridgeVars>>

\* The task running call r is cancelled while coordinate_swarm_task is
\* suspended: CancelledError leaves _coordinate_swarm_only before its
\* dissolve_swarm.
SwarmOnlyCancelled(r) ==
    /\ r \in 1..Len(runs)
    /\ runs[r].pc = "coordinating"
    /\ LET c == runs[r].call
           s == coord[c].swarm
           e == finish_call(c, coord[c], swarms[s], "cancel", "none")
       IN /\ swarms' = [swarms EXCEPT ![s] = e.swarm]
          /\ coord' = [coord EXCEPT ![c] = e.rec]
    /\ runs' = [runs EXCEPT ![r].pc = "cancelled"]
    /\ sevent' = NoSwarmEvent
    /\ UNCHANGED <<now, active_swarms, bridge_swarms, formed, swarm_history,
                   global_memory>>
    /\ UNCHANGED <<cbVars, resVars, resolveVars, nodeVars, hiveVars, memVars,
                   agentVars, coordinatorVars, bridgeVars>>

NextSwarmOnly ==
    \/ \E id \in SwarmIds, team \in SwarmTeams :
          HandleSwarmCreate(id, "mesh", team)
    \/ \E t \in RunTasks : CoordinateSwarmOnly(t[1], t[2], t[3], t[4], t[5])
    \/ \E r \in 1..MaxRuns, how \in {"return", "raise"}, f \in GatherFailures :
          SwarmOnlyResumes(r, how, f)
    \/ \E r \in 1..MaxRuns : SwarmOnlyCancelled(r)

SpecSwarmOnly == Init /\ [][NextSwarmOnly]_vars

\* C32: every swarm-only coordination gets a swarm that create_swarm made for
\* it, the swarm stays active and its own while the coordination awaits
\* coordinate_swarm_task, and the dissolve_swarm at its end dissolves that
\* swarm.
C32_OwnSwarmAsClaimed ==
    \A r \in 1..Len(runs) :
       /\ runs[r].fresh
       /\ Len(swarms[runs[r].swarm].order) <= MaxSwarmSize
       /\ runs[r].pc = "coordinating" =>
             /\ runs[r].swarm_id \in DOMAIN active_swarms
             /\ active_swarms[runs[r].swarm_id] = runs[r].swarm
             /\ \A q \in 1..Len(runs) :
                   (q # r /\ runs[q].pc = "coordinating")
                      => runs[q].swarm # runs[r].swarm
       /\ runs[r].pc = "returned" =>
             /\ runs[r].dissolved
             /\ runs[r].swarm_id \notin DOMAIN active_swarms

\* ------------------------------------------------ hive-only coordinations
\* Bound of the model: the _coordinate_hive_only calls of one run.
MaxHiveRuns == 2
\* selected_agents[:10]
MaxHiveSelected == 10
TenReviewers == [i \in 1..MaxHiveSelected |-> "reviewer"]
\* The coordinated tasks (time_critical, complexity and
\* len(required_capabilities)) with their preferred_agents; in the last list
\* the registered agent comes after the limit.
HiveOnlyTasks ==
    {<<FALSE, 5, 5, <<"backend_architect">> >>,
     <<TRUE, 5, 5, <<"reviewer", "ai_engineer">> >>,
     <<FALSE, 5, 8, TenReviewers \o <<"ios_developer">> >>}

\* _select_hive_decision_method
select_hive_decision_method(time_critical, complexity, capabilities) ==
    IF time_critical THEN "weighted"
    ELSE IF complexity > 8 THEN "emergent"
    ELSE IF capabilities > 6 THEN "quorum"
    ELSE "consensus"

\* The loop of _coordinate_hive_only over selected_agents[:10]: one
\* initialize_hive_node call per registered agent, at clock second t; vecs
\* gives the expertise vector _create_expertise_vector draws for each agent.
RECURSIVE ensure_nodes(_, _, _, _)
ensure_nodes(tbl, agents, vecs, t) ==
    IF agents = <<>> THEN tbl
    ELSE LET a == Head(agents)
         IN ensure_nodes(IF a \in DOMAIN AgentRegistry
                         THEN initialize_hive_node(tbl, a, vecs[a], t)
                         ELSE tbl,
                         Tail(agents), vecs, t)

\* selected_agents[:10], and the registered agents among them.
first_selected(selected_agents) ==
    SubSeq(selected_agents, 1,
           IF Len(selected_agents) < MaxHiveSelected THEN Len(selected_agents)
           ELSE MaxHiveSelected)
Selected(preferred_agents) ==
    {first_selected(preferred_agents)[i] :
        i \in 1..Len(first_selected(preferred_agents))} \cap DOMAIN AgentRegistry

\* _coordinate_hive_only(task, preferred_agents) up to its first suspension in
\* _wait_for_hive_decision: the nodes of the selected agents, the task context
\* in the collective memory, and the decision. What follows the wait reads
\* the decision and returns.
CoordinateHiveOnly(time_critical, complexity, capabilities, preferred_agents, vecs) ==
    /\ Len(hproc) < MaxHiveRuns
    /\ nodes' = ensure_nodes(nodes, first_selected(preferred_agents), vecs, now)
    /\ memory_store' = store_collective_memory(memory_store, "working",
                                               <<"task", "description">>, 8, now)
    /\ mevent' = [op |-> "remember", query |-> <<"task", "description">>,
                  memory_type |-> "working", confidence |-> 8,
                  returned |-> <<>>]
    /\ decisions' =
          Append(decisions,
                 NewHiveDecision(DecisionId(now),
                                 select_hive_decision_method(time_critical,
                                                             complexity,
                                                             capabilities),
                                 {nodes'[n].agent_id : n \in DOMAIN nodes'}))
    /\ active_decisions' =
          [i \in (DOMAIN active_decisions) \cup {DecisionId(now)} |->
              IF i = DecisionId(now) THEN Len(decisions) + 1 ELSE active_decisions[i]]
    /\ hproc' = Append(hproc, [decision_id |-> DecisionId(now), pc |-> "scheduled",
                               ref |-> 0, pending |-> {}])
    /\ UNCHANGED <<now, decision_history>>
    /\ UNCHANGED <<cbVars, resVars, resolveVars, swarmVars, agentVars,
                   coordinatorVars, lifeVars, bridgeVars>>

NextHiveOnly ==
    \/ \E t \in HiveOnlyTasks :
          \E vecs \in [Selected(t[4]) -> ExpertiseVectors] :
             CoordinateHiveOnly(t[1], t[2], t[3], t[4], vecs)
    \/ HiveTick
    \/ \E p \in 1..Len(hproc) : ProcessStart(p)
    \/ \E p \in 1..Len(hproc), n \in DOMAIN nodes : CollectNodeVote(p, n)
    \/ \E p \in 1..Len(hproc), n \in DOMAIN nodes : CollectorRaises(p, n)
    \/ \E p \in 1..Len(hproc) : DecisionTimeout(p)
    \/ \E p \in 1..Len(hproc) : ResolveHiveDecision(p)

SpecHiveOnly == Init /\ [][NextHiveOnly]_vars

\* C33: hive-only coordinations leave at most one hive node per agent.
C33_OneNodePerAgentAsClaimed ==
    \A n \in DOMAIN nodes, m \in DOMAIN nodes :
       nodes[n].agent_id = nodes[m].agent_id => n = m

\* ------------------------------------------------------------------------
\* The daemon bridge (core/daemon_bridge.py): one client connection whose
\* lines handle_client reads and answers one after the other, and stop().
\* Bound of the model: the lines read from the connection.
MaxLines == 3

\* A line of the connection: text that is not JSON, JSON that is not an
\* object, or a command object with its action and the parameters the
\* handlers read.
Line(json, action, swarm_id, topology, mode, agents) ==
    [json |-> json, action |-> action, swarm_id |-> swarm_id,
     topology |-> topology, mode |-> mode, agents |-> agents]
Command(action, swarm_id, topology, mode, agents) ==
    Line("object", action, swarm_id, topology, mode, agents)
\* The responses: {"error": ...} and {"success": True, ...}.
ErrorResponse(error) ==
    [success |-> FALSE, error |-> error, action |-> "none", detail |-> "none"]
Success(action, detail) ==
    [success |-> TRUE, error |-> "", action |-> action, detail |-> detail]

\* task_id=f"cli_collaborate_{int(time.time())}"
CollaborateTaskId(t) == "cli_collaborate_" \o ToString(t)
\* complexity=0.7 of handle_swarm_execute's and handle_collaborate's tasks.
CliComplexity == 7
\* CoordinationMode(mode) if mode != "adaptive_selection" else None
coordination_mode_of(mode) ==
    IF mode = "adaptive_selection" THEN "none"
    ELSE IF mode \in CoordinationMode THEN mode
    ELSE "ValueError"

\* The ids and agent lists of the commands. "swarm_cli_collaborate_0" is the
\* id _coordinate_swarm_only gives the swarm of a collaborate command handled
\* in second 0; "ring" is not a topology and "bogus" not a coordination mode.
BridgeSwarmIds == {"swarm_a", SwarmOnlyId(CollaborateTaskId(0))}
BridgeTopologies == {"mesh", "ring"}
CollaborateModes == {"swarm_only", "bogus"}
SevenAgents ==
    <<"backend_architect">> \o [i \in 1..6 |-> "reviewer"]
BridgeTeams == {<<"backend_architect">>, SevenAgents}

\* handle_client has read the line: the bridge runs, the connection is open
\* and no handler is suspended.
reads(line) ==
    /\ running
    /\ conn = "open"
    /\ pending = NoCommand
    /\ Len(received) < MaxLines
    /\ received' = Append(received, line)
    /\ running' = running
\* handle_client writes the response and reads on.
responds(response) ==
    /\ sent' = Append(sent, response)
    /\ conn' = conn
    /\ pending' = NoCommand

\* json.loads raises JSONDecodeError.
ReceiveInvalidJson ==
    /\ reads(Line("invalid", "none", "none", "none", "none", <<>>))
    /\ responds(ErrorResponse("Invalid JSON command"))
    /\ UNCHANGED <<now, cbVars, resVars, swarmHiveVars, memVars, agentVars,
                   coordinatorVars, lifeVars>>

\* json.loads returns a list, a string or a number: command.get raises
\* AttributeError before the try block of process_command; handle_client's
\* except Exception logs it and the finally block closes the writer.
ReceiveNonObject ==
    /\ reads(Line("array", "none", "none", "none", "none", <<>>))
    /\ conn' = "closed_by_server"
    /\ UNCHANGED <<sent, pending>>
    /\ UNCHANGED <<now, cbVars, resVars, swarmHiveVars, memVars, agentVars,
                   coordinatorVars, lifeVars>>

\* process_command with an action it does not know.
ProcessUnknownAction(action) ==
    /\ reads(Command(action, "none", "none", "none", <<>>))
    /\ responds(ErrorResponse("Unknown action: " \o action))
    /\ UNCHANGED <<now, cbVars, resVars, swarmHiveVars, memVars, agentVars,
                   coordinatorVars, lifeVars>>

\* handle_swarm_create
ProcessSwarmCreate(id, topology, agents) ==
    /\ reads(Command("swarm_create", id, topology, "none", agents))
    /\ handle_swarm_create(id, topology, agents)
    /\ responds(Success("swarm_create", topology))
    /\ UNCHANGED <<now, coord>>
    /\ UNCHANGED <<cbVars, resVars, resolveVars, nodeVars, hiveVars, memVars,
                   agentVars, coordinatorVars, lifeVars>>

\* handle_swarm_execute up to the first suspension of coordinate_swarm_task,
\* or to the response when it does not suspend.
ProcessSwarmExecute(id) ==
    /\ reads(Command("swarm_execute", id, "none", "none", <<>>))
    /\ IF id \notin DOMAIN bridge_swarms
       THEN /\ responds(ErrorResponse("Swarm " \o id \o " not found"))
            /\ UNCHANGED <<swarms, coord>>
       ELSE IF id \notin DOMAIN active_swarms
       THEN /\ responds(Success("swarm_execute", "error"))
            /\ coord' = Append(coord, NewCoordination)
            /\ swarms' = swarms
       ELSE LET s == active_swarms[id]
                e == enter_coordination(Len(coord) + 1, swarms[s], s, id, now,
                                        CliComplexity, FALSE)
            IN /\ coord' = Append(coord, e.rec)
               /\ swarms' = [swarms EXCEPT ![s] = e.swarm]
               /\ IF e.rec.pc \in Suspended
                  THEN /\ pending' = [kind |-> "swarm_execute",
                                      index |-> Len(coord) + 1]
                       /\ UNCHANGED <<sent, conn>>
                  ELSE responds(Success("swarm_execute", e.rec.result.status))
    /\ sevent' = NoSwarmEvent
    /\ UNCHANGED <<now, active_swarms, bridge_swarms, formed>>
    /\ UNCHANGED <<cbVars, resVars, resolveVars, nodeVars, hiveVars, memVars,
                   agentVars, coordinatorVars, lifeVars>>

\* handle_swarm_status; get_swarm_status returns None for a swarm the swarm
\* manager does not hold.
ProcessSwarmStatus(id) ==
    /\ reads(Command("swarm_status", id, "none", "none", <<>>))
    /\ responds(IF id \notin DOMAIN bridge_swarms
                THEN ErrorResponse("Swarm " \o id \o " not found")
                ELSE IF id \notin DOMAIN active_swarms
                THEN ErrorResponse("Failed to get status for swarm " \o id)
                ELSE Success("swarm_status", id))
    /\ sevent' = NoSwarmEvent
    /\ UNCHANGED <<now, swarms, active_swarms, bridge_swarms, formed, coord>>
    /\ UNCHANGED <<cbVars, resVars, resolveVars, nodeVars, hiveVars, memVars,
                   agentVars, coordinatorVars, lifeVars>>

\* handle_swarm_dissolve
ProcessSwarmDissolve(id) ==
    /\ reads(Command("swarm_dissolve", id, "none", "none", <<>>))
    /\ IF id \notin DOMAIN bridge_swarms
       THEN /\ responds(ErrorResponse("Swarm " \o id \o " not found"))
            /\ UNCHANGED <<active_swarms, bridge_swarms, swarm_history,
                           global_memory>>
       ELSE LET d == dissolve_swarm(swarms, active_swarms, swarm_history,
                                    global_memory, id)
            IN /\ active_swarms' = d.active_swarms
               /\ swarm_history' = d.swarm_history
               /\ global_memory' = d.global_memory
               /\ IF d.returned
                  THEN /\ bridge_swarms' = [i \in (DOMAIN bridge_swarms) \ {id} |->
                                              bridge_swarms[i]]
                       /\ responds(Success("swarm_dissolve", id))
                  ELSE /\ bridge_swarms' = bridge_swarms
                       /\ responds(ErrorResponse("Failed to dissolve swarm " \o id))
    /\ sevent' = NoSwarmEvent
    /\ UNCHANGED <<now, swarms, formed, coord, runs>>
    /\ UNCHANGED <<cbVars, resVars, resolveVars, nodeVars, hiveVars, memVars,
                   agentVars, coordinatorVars>>

\* handle_swarm_list
ProcessSwarmList ==
    /\ reads(Command("swarm_list", "none", "none", "none", <<>>))
    /\ responds(Success("swarm_list", ToString(Cardinality(DOMAIN bridge_swarms))))
    /\ sevent' = NoSwarmEvent
    /\ UNCHANGED <<now, swarms, active_swarms, bridge_swarms, formed, coord>>
    /\ UNCHANGED <<cbVars, resVars, resolveVars, nodeVars, hiveVars, memVars,
                   agentVars, coordinatorVars, lifeVars>>

\* The end of coordinate_task call c whose swarm-only coordination returned
\* (its efficiency_score is the default, no pattern's result holding a
\* "consensus_confidence"), and handle_collaborate's response.
collaborate_returns(calls, active, c) ==
    LET v == coordination_returns(calls, active, c, DefaultEfficiency)
    IN /\ ctasks' = v.ctasks
       /\ coordination_history' = v.coordination_history
       /\ performance_metrics' = v.performance_metrics
       /\ active_coordinations' = v.active_coordinations
       /\ responds(Success("collaborate", "swarm_only"))

\* handle_collaborate with a list of agents, for the modes that are not a
\* CoordinationMode (CoordinationMode(mode) raises ValueError, which
\* process_command turns into an error) and those coordinate_task runs as
\* swarm-only: up to the first suspension of the coordination, or to the
\* response when it does not suspend.
ProcessCollaborate(mode, agents) ==
    LET task == [task_id |-> CollaborateTaskId(now), complexity |-> CliComplexity,
                 capabilities |-> Len(agents), time_critical |-> FALSE,
                 coordination_mode |-> coordination_mode_of(mode)]
    IN /\ reads(Command("collaborate", "none", "none", mode, agents))
       /\ IF task.coordination_mode = "ValueError"
          THEN /\ responds(ErrorResponse("Command processing failed"))
               /\ UNCHANGED <<swarms, active_swarms, formed, coord, lifeVars,
                              performance_metrics, active_coordinations,
                              coordination_history, ctasks>>
          ELSE /\ mode_of(performance_metrics, task) = "swarm_only"
               /\ Len(runs) < MaxRuns
               /\ LET began == coordinate_task(task)
                      v == coordinate_swarm_only(task.task_id, task.complexity,
                                                 FALSE, task.capabilities, agents)
                  IN /\ SwarmTablesBecome(v)
                     /\ IF v.ended
                        THEN collaborate_returns(began.ctasks,
                                                 began.active_coordinations,
                                                 Len(began.ctasks))
                        ELSE /\ ctasks' = began.ctasks
                             /\ active_coordinations' = began.active_coordinations
                             /\ pending' = [kind |-> "collaborate",
                                            index |-> Len(began.ctasks)]
                             /\ UNCHANGED <<sent, conn, performance_metrics,
                                            coordination_history>>
       /\ sevent' = NoSwarmEvent
       /\ cevent' = NoCoordinationEvent
       /\ UNCHANGED <<now, bridge_swarms>>
       /\ UNCHANGED <<cbVars, resVars, resolveVars, nodeVars, hiveVars, memVars,
                      agentVars>>

\* The await the suspended handler waits on ends. A swarm_execute runs on to
\* the next suspension of its coordinate_swarm_task or to its response; a
\* collaborate runs on to the next suspension of its coordination, or
\* through dissolve_swarm and the end of coordinate_task to its response.
PendingResumes(how, failed) ==
    /\ pending.kind \in {"swarm_execute", "collaborate"}
    /\ IF pending.kind = "swarm_execute"
       THEN LET c == pending.index
                s == coord[c].swarm
                e == IF coord[c].pc = "subtask" THEN subtask_ends(c, how)
                     ELSE gather_joins(c, failed)
            IN /\ Resumptions(coord[c], how, failed)
               /\ swarms' = [swarms EXCEPT ![s] = e.swarm]
               /\ coord' = [coord EXCEPT ![c] = e.rec]
               /\ IF e.rec.pc \in Suspended
                  THEN UNCHANGED <<sent, conn, pending>>
                  ELSE responds(Success("swarm_execute", e.rec.result.status))
               /\ UNCHANGED <<active_swarms, formed, lifeVars, coordinatorVars>>
       ELSE LET r == CHOOSE i \in 1..Len(runs) : runs[i].pc = "coordinating"
                v == swarm_only_resumes(r, how, failed)
            IN /\ Resumptions(coord[runs[r].call], how, failed)
               /\ SwarmTablesBecome(v)
               /\ cevent' = NoCoordinationEvent
               /\ IF v.ended
                  THEN collaborate_returns(ctasks, active_coordinations,
                                           pending.index)
                  ELSE UNCHANGED <<sent, conn, pending, performance_metrics,
                                   active_coordinations, coordination_history,
                                   ctasks>>
    /\ sevent' = NoSwarmEvent
    /\ UNCHANGED <<now, bridge_swarms, running, received>>
    /\ UNCHANGED <<cbVars, resVars, resolveVars, nodeVars, hiveVars, memVars,
                   agentVars>>

\* The client closes the connection: readline returns b"" and handle_client
\* leaves its loop.
ClientCloses ==
    /\ conn = "open"
    /\ pending = NoCommand
    /\ conn' = "closed_by_client"
    /\ UNCHANGED <<running, received, sent, pending>>
    /\ UNCHANGED <<now, cbVars, resVars, swarmHiveVars, memVars, agentVars,
                   coordinatorVars, lifeVars>>

\* The loop of stop() over list(self.active_swarms.keys()).
RECURSIVE dissolve_all(_, _)
dissolve_all(tables, ids) ==
    IF ids = {} THEN tables
    ELSE LET id == CHOOSE i \in ids : TRUE
         IN dissolve_all(dissolve_swarm(swarms, tables.active_swarms,
                                        tables.swarm_history,
                                        tables.global_memory, id),
                         ids \ {id})

\* DaemonBridge.stop()
Stop ==
    /\ running
    /\ running' = FALSE
    /\ LET d == dissolve_all([active_swarms |-> active_swarms,
                              swarm_history |-> swarm_history,
                              global_memory |-> global_memory],
                             DOMAIN bridge_swarms)
       IN /\ active_swarms' = d.active_swarms
          /\ swarm_history' = d.swarm_history
          /\ global_memory' = d.global_memory
    /\ sevent' = [op |-> "stop", swarm_id |-> "none", other |-> FALSE,
                  returned |-> 0]
    /\ UNCHANGED <<now, swarms, bridge_swarms, formed, coord, runs>>
    /\ UNCHANGED <<conn, received, sent, pending>>
    /\ UNCHANGED <<cbVars, resVars, resolveVars, nodeVars, hiveVars, memVars,
                   agentVars, coordinatorVars>>

NextBridge ==
    \/ ReceiveInvalidJson
    \/ ReceiveNonObject
    \/ ProcessUnknownAction("frobnicate")
    \/ \E id \in BridgeSwarmIds, tp \in BridgeTopologies, team \in BridgeTeams :
          ProcessSwarmCreate(id, tp, team)
    \/ \E id \in BridgeSwarmIds : ProcessSwarmExecute(id)
    \/ \E id \in BridgeSwarmIds : ProcessSwarmStatus(id)
    \/ \E id \in BridgeSwarmIds : ProcessSwarmDissolve(id)
    \/ ProcessSwarmList
    \/ \E mode \in CollaborateModes, team \in BridgeTeams :
          ProcessCollaborate(mode, team)
    \/ \E how \in {"return", "raise"}, f \in GatherFailures : PendingResumes(how, f)
    \/ ClientCloses
    \/ Stop

SpecBridge == Init /\ [][NextBridge]_vars


\* C34: every line read from the connection is answered by exactly one
\* response, in order, and only the client closes the connection; a line that
\* is not JSON is answered by the error "Invalid JSON command", an unknown
\* action by "Unknown action: <name>", and a command whose handler fails by
\* an error.
C34_EveryLineAnsweredAsClaimed ==
    /\ conn # "closed_by_server"
    /\ pending = NoCommand => Len(sent) = Len(received)
    /\ \A i \in 1..Len(sent) :
          /\ received[i].json = "invalid"
                => sent[i] = ErrorResponse("Invalid JSON command")
          /\ received[i].action = "frobnicate"
                => sent[i] = ErrorResponse("Unknown action: frobnicate")
          /\ received[i].mode = "bogus" => ~sent[i].success

\* C35: when stop() returns no swarm is active in the swarm manager and no
\* handler is left suspended.
C35_StopLeavesNoSwarmAsClaimed ==
    sevent.op = "stop" => DOMAIN active_swarms = {} /\ pending = NoCommand

\* C36: a swarm_create command whose topology is not a SwarmTopology is
\* answered by an error and creates no swarm.
C36_UnknownTopologyRejectedAsClaimed ==
    [][(/\ Len(received') > Len(received)
        /\ received'[Len(received')].action = "swarm_create"
        /\ received'[Len(received')].topology \notin SwarmTopology)
       => /\ ~sent'[Len(sent')].success
          /\ swarms' = swarms
          /\ active_swarms' = active_swarms]_vars

\* C40: while the bridge runs, every swarm id of the bridge's active_swarms
\* names a swarm active in the swarm manager, and no swarm_status or
\* swarm_dissolve of an id the bridge holds is answered by an error.
C40_BridgeSwarmsActiveAsClaimed ==
    running =>
       /\ \A id \in DOMAIN bridge_swarms :
             /\ id \in DOMAIN active_swarms
             /\ active_swarms[id] = bridge_swarms[id]
       /\ \A i \in 1..Len(sent) :
             received[i].action \in {"swarm_status", "swarm_dissolve"}
                => \/ sent[i].success
                   \/ sent[i].error = "Swarm " \o received[i].swarm_id \o " not found"


\* C37: the votes of a decision come from nodes of agents in the participant
\* set fixed when it was initiated, one vote per node, and the votes of a
\* resolved decision do not change any more.
C37_VotesOnlyWhileOpenAsClaimed ==
    [][\A d \in 1..Len(decisions) :
          /\ \A i \in 1..Len(decisions'[d].votes) :
                /\ nodes[decisions'[d].votes[i].node].agent_id
                      \in decisions[d].participants
                /\ \A j \in 1..Len(decisions'[d].votes) :
                      decisions'[d].votes[j].node = decisions'[d].votes[i].node
                         => j = i
          /\ decisions[d].resolved
                => decisions'[d].votes = decisions[d].votes]_vars


\* C39: the decisions initiated get distinct decision ids, and once their
\* processes have ended every one of them is in decision_history and
\* active_decisions is empty.
C39_DistinctDecisionsAsClaimed ==
    /\ \A d \in 1..Len(decisions), e \in 1..Len(decisions) :
          d # e => decisions[d].decision_id # decisions[e].decision_id
    /\ (\A p \in 1..Len(hproc) : hproc[p].pc \in Ended)
          => /\ Len(decision_history) = Len(decisions)
             /\ DOMAIN active_decisions = {}

\* ------------------------------------------------------- loads of a worker
\* load_capacity: float = 1.0, in tenths.
LoadCapacity == 10
\* Bound of the model: the coordinate_swarm_task calls made in one burst.
MaxLoadCalls == 11
\* The schedules followed: the calls of a burst are made back to back, each
\* running to the await of its first subtask, and the awaits return, the
\* newest call's first.
Burst == \A c \in 1..Len(coord) : coord[c].pc = "subtask" /\ coord[c].ran = 0
Newest(c) == coord[c].pc \in Suspended
             /\ \A d \in (c + 1)..Len(coord) : coord[d].pc \notin Suspended

NextLoad ==
    \/ \E team \in SwarmTeams \cup QueenTeams :
          HandleSwarmCreate("swarm_a", "hierarchical", team)
    \/ /\ Len(coord) < MaxLoadCalls
       /\ Burst
       /\ coordinate_swarm_task("swarm_a", 5, FALSE)
    \/ \E c \in 1..MaxLoadCalls :
          /\ c <= Len(coord)
          /\ Newest(c)
          /\ SubtaskEnds(c, "return")

SpecLoad == Init /\ [][NextLoad]_vars

\* C38: the current_load of every agent of every swarm is at least 0 and at
\* most its load_capacity.
C38_LoadWithinCapacityAsClaimed ==
    \A s \in 1..Len(swarms) :
       \A a \in DOMAIN swarms[s].active_agents :
          /\ swarms[s].active_agents[a].current_load >= 0
          /\ swarms[s].active_agents[a].current_load <= LoadCapacity

====
